---- MODULE Spec2Model ----
(***************************************************************************)
(* Verification model of the Load3D packing engine.                        *)
(*                                                                         *)
(* Lengths are integers counting hundredths of the source's length unit    *)
(* (source 0.01 = 1, 0.05 = 5, 0.25 = 25, 0.5 = 50).  The geometry         *)
(* tolerance EPSILON = 0.0001 is finer than that grid, so the comparisons  *)
(* that use it are made in ten-thousandths, see Fine.                      *)
(*                                                                         *)
(* The orchestrator modelled is the revision of PackingEngine that routes  *)
(* box, pallet and roll groups through bulk placement                      *)
(* (src/unnamed/part_016); the strategies are BoxStrategy.ts (first class  *)
(* of the file), RollStrategy.ts (lattice class, lines 425-742) and        *)
(* PalletStrategy.ts; geometry is GeometryUtils.ts (first class).          *)
(***************************************************************************)
EXTENDS Integers, Sequences, FiniteSets, TLC

VARIABLES
  items,          \* the catalog passed to run
  container,      \* the container dimensions passed to run
  config,         \* the IPackingConfig the engine was constructed with
  pc,             \* position of run: "start", "group", "units", "done", "diverged"
  groups,         \* itemGroups: the groups of identical units, in order
  gi,             \* index of the group the for-loop is at
  ui,             \* index of the unit the inner for-loop is at
  placedItems,    \* placedItems of run
  unplacedItems,  \* unplacedItems of run
  attempted,      \* ids of the units handed to a strategy's findBestPosition
  bulk,           \* ids of the units placed by tryPatternPackingForGroup
  tried,          \* indices of the groups tryPatternPackingForGroup was called for
  budgetHit,      \* some pattern evaluation was cut short by its time budget
  result,         \* the metrics of the returned result
  prev,           \* what the previous run on the same input returned
  evaluation,     \* what the last direct call of an evaluator or a test returned
  cargoItems,     \* cargoItems of the loading store
  loadingResult,  \* loadingResult of the loading store
  isCalculating,  \* isCalculating of the loading store
  worker,         \* the Worker of the WorkerHandler and the calls its handlers settle
  workerInbox,    \* messages posted to the worker and not yet handled
  mainInbox,      \* events the worker raised on the main thread, not yet handled
  promises        \* the promises startPacking returned, in the order of the calls

storeVars == <<cargoItems, loadingResult, isCalculating, worker, workerInbox, mainInbox,
               promises>>

vars == <<items, container, config, pc, groups, gi, ui, placedItems, unplacedItems,
          attempted, bulk, tried, budgetHit, result, prev, evaluation, storeVars>>

----------------------------------------------------------------------------
(* Small helpers *)

Min(a, b) == IF a <= b THEN a ELSE b
Max(a, b) == IF a >= b THEN a ELSE b
Abs(a) == IF a < 0 THEN -a ELSE a

Dims(l, w, h) == [length |-> l, width |-> w, height |-> h]
Vec(x, y, z) == [x |-> x, y |-> y, z |-> z]

(* a model length expressed in ten-thousandths of the source unit *)
Fine(v) == v * 100

RECURSIVE SeqSum(_)
SeqSum(s) == IF s = <<>> THEN 0 ELSE Head(s) + SeqSum(Tail(s))

(* concatenation of the sequences ss[lo], ..., ss[hi] *)
RECURSIVE FlattenRange(_, _, _)
FlattenRange(ss, lo, hi) ==
  IF lo > hi THEN <<>>
  ELSE IF lo = hi THEN ss[lo]
  ELSE LET mid == (lo + hi) \div 2
       IN  FlattenRange(ss, lo, mid) \o FlattenRange(ss, mid + 1, hi)

Flatten(ss) == FlattenRange(ss, 1, Len(ss))

RECURSIVE GCD(_, _)
GCD(a, b) == IF b = 0 THEN a ELSE GCD(b, a % b)

----------------------------------------------------------------------------
(* Tolerances and configuration of the program *)

EPSILON == 1
FloorTol == 1
SlotTol == 1
BoxWidthTol == 1
PalletWidthTol == 10
SupportEps == 5
ContactTol == 25
PointTol == 1
StackTol == 5
MinStackLen == 10
MinRollDim == 1
MinHexStep == 1
PalletStep == 50
MinItemsForPatterns == 5
AutoPalletMargin == 10
AutoPalletHeight == 15
MaxBoxPatterns == 10
MaxPalletPatterns == 15

----------------------------------------------------------------------------
(* GeometryUtils *)

checkIntervalOverlap(min1, len1, min2, len2) ==
  /\ Fine(min1) < Fine(min2 + len2) - EPSILON
  /\ Fine(min1 + len1) > Fine(min2) + EPSILON

(* a variant in which the tolerance widens the intervals *)
checkAABBIntersectionWide(pos1, dim1, pos2, dim2) ==
  /\ Fine(pos1.x) < Fine(pos2.x + dim2.length) + EPSILON
  /\ Fine(pos1.x + dim1.length) > Fine(pos2.x) - EPSILON
  /\ Fine(pos1.y) < Fine(pos2.y + dim2.height) + EPSILON
  /\ Fine(pos1.y + dim1.height) > Fine(pos2.y) - EPSILON
  /\ Fine(pos1.z) < Fine(pos2.z + dim2.width) + EPSILON
  /\ Fine(pos1.z + dim1.width) > Fine(pos2.z) - EPSILON

checkAABBIntersection(pos1, dim1, pos2, dim2) ==
  /\ Fine(pos1.x) < Fine(pos2.x + dim2.length) - EPSILON
  /\ Fine(pos1.x + dim1.length) > Fine(pos2.x) + EPSILON
  /\ Fine(pos1.y) < Fine(pos2.y + dim2.height) - EPSILON
  /\ Fine(pos1.y + dim1.height) > Fine(pos2.y) + EPSILON
  /\ Fine(pos1.z) < Fine(pos2.z + dim2.width) - EPSILON
  /\ Fine(pos1.z + dim1.width) > Fine(pos2.z) + EPSILON

isWithinBounds(position, dimensions, containerDimensions) ==
  /\ Fine(position.x) >= -EPSILON
  /\ Fine(position.y) >= -EPSILON
  /\ Fine(position.z) >= -EPSILON
  /\ Fine(position.x + dimensions.length) <= Fine(containerDimensions.length) + EPSILON
  /\ Fine(position.y + dimensions.height) <= Fine(containerDimensions.height) + EPSILON
  /\ Fine(position.z + dimensions.width) <= Fine(containerDimensions.width) + EPSILON

(* distSq < (r1 + r2 - EPSILON)^2 with r = diameter / 2: both sides are     *)
(* multiplied by 4 (centres and radii doubled) and then by 50^2, so that    *)
(* the doubled EPSILON (0.0002 = 0.02 model units) becomes the integer 1.   *)
CircleOverlap(a1, b1, dia1, a2, b2, dia2) ==
  LET da == (2 * a1 + dia1) - (2 * a2 + dia2)
      db == (2 * b1 + dia1) - (2 * b2 + dia2)
      minDist == 50 * (dia1 + dia2) - EPSILON
  IN  2500 * (da * da + db * db) < minDist * minDist

checkCylinderCylinderIntersection(pos1, dim1, orient1, pos2, dim2, orient2) ==
  IF orient1 = orient2
  THEN IF orient1 = "vertical"
       THEN IF ~checkIntervalOverlap(pos1.y, dim1.height, pos2.y, dim2.height)
            THEN FALSE
            ELSE CircleOverlap(pos1.x, pos1.z, dim1.length, pos2.x, pos2.z, dim2.length)
       ELSE LET axis1 == IF dim1.length > dim1.width THEN "x" ELSE "z"
                axis2 == IF dim2.length > dim2.width THEN "x" ELSE "z"
            IN  IF axis1 = axis2
                THEN LET longAxisOverlap ==
                           IF axis1 = "x"
                           THEN checkIntervalOverlap(pos1.x, dim1.length, pos2.x, dim2.length)
                           ELSE checkIntervalOverlap(pos1.z, dim1.width, pos2.z, dim2.width)
                     IN  IF ~longAxisOverlap
                         THEN FALSE
                         ELSE IF axis1 = "x"
                              THEN CircleOverlap(pos1.y, pos1.z, dim1.height, pos2.y, pos2.z, dim2.height)
                              ELSE CircleOverlap(pos1.x, pos1.y, dim1.height, pos2.x, pos2.y, dim2.height)
                ELSE TRUE
  ELSE TRUE

(* clamp of a doubled centre coordinate c2 onto the doubled interval of the box *)
Clamp2(c2, lo, len) == Max(2 * lo, Min(c2, 2 * (lo + len)))

checkBoxCylinderIntersection(boxPos, boxDim, cylPos, cylDim, cylOrient) ==
  LET dia == IF cylOrient = "vertical" THEN cylDim.length ELSE cylDim.height
  IN  IF cylOrient = "vertical"
      THEN LET cx == 2 * cylPos.x + dia
               cz == 2 * cylPos.z + dia
               dx == cx - Clamp2(cx, boxPos.x, boxDim.length)
               dz == cz - Clamp2(cz, boxPos.z, boxDim.width)
           IN  /\ checkIntervalOverlap(boxPos.y, boxDim.height, cylPos.y, cylDim.height)
               /\ dx * dx + dz * dz < dia * dia
      ELSE IF cylDim.length > cylDim.width
           THEN LET cy == 2 * cylPos.y + dia
                    cz == 2 * cylPos.z + dia
                    dy == cy - Clamp2(cy, boxPos.y, boxDim.height)
                    dz == cz - Clamp2(cz, boxPos.z, boxDim.width)
                IN  /\ checkIntervalOverlap(boxPos.x, boxDim.length, cylPos.x, cylDim.length)
                    /\ dy * dy + dz * dz < dia * dia
           ELSE LET cx == 2 * cylPos.x + dia
                    cy == 2 * cylPos.y + dia
                    dx == cx - Clamp2(cx, boxPos.x, boxDim.length)
                    dy == cy - Clamp2(cy, boxPos.y, boxDim.height)
                IN  /\ checkIntervalOverlap(boxPos.z, boxDim.width, cylPos.z, cylDim.width)
                    /\ dx * dx + dy * dy < dia * dia

checkIntersection(pos1, dim1, pos2, dim2, item1Type, item2Type, orientation1, orientation2) ==
  IF ~checkAABBIntersection(pos1, dim1, pos2, dim2)
  THEN FALSE
  ELSE LET isRoll1 == item1Type = "roll"
           isRoll2 == item2Type = "roll"
       IN  IF ~isRoll1 /\ ~isRoll2 THEN TRUE
           ELSE IF isRoll1 /\ isRoll2
                THEN checkCylinderCylinderIntersection(pos1, dim1, orientation1, pos2, dim2, orientation2)
                ELSE IF isRoll1
                     THEN checkBoxCylinderIntersection(pos2, dim2, pos1, dim1, orientation1)
                     ELSE checkBoxCylinderIntersection(pos1, dim1, pos2, dim2, orientation2)

(* GeometryUtils as it stands in the revision whose checkIntersection      *)
(* sends two rolls to the cylinder test before any bounding-box test; its   *)
(* EPSILON is 0.001 and its cylinder tests allow an overlap of 0.005        *)

EPSILON_R2 == 10
ALLOWED_OVERLAP == 50

checkIntervalOverlapR2(min1, len1, min2, len2) ==
  /\ Fine(min1) < Fine(min2 + len2) - EPSILON_R2
  /\ Fine(min1 + len1) > Fine(min2) + EPSILON_R2

checkAABBIntersectionR2(pos1, dim1, pos2, dim2) ==
  /\ Fine(pos1.x) < Fine(pos2.x + dim2.length) - EPSILON_R2
  /\ Fine(pos1.x + dim1.length) > Fine(pos2.x) + EPSILON_R2
  /\ Fine(pos1.y) < Fine(pos2.y + dim2.height) - EPSILON_R2
  /\ Fine(pos1.y + dim1.height) > Fine(pos2.y) + EPSILON_R2
  /\ Fine(pos1.z) < Fine(pos2.z + dim2.width) - EPSILON_R2
  /\ Fine(pos1.z + dim1.width) > Fine(pos2.z) + EPSILON_R2

(* distSq < (r1 + r2 - ALLOWED_OVERLAP)^2 with centres and radii doubled    *)
(* and expressed in ten-thousandths of the source unit                      *)
CircleOverlapR2(a1, b1, dia1, a2, b2, dia2) ==
  LET da == (2 * a1 + dia1) - (2 * a2 + dia2)
      db == (2 * b1 + dia1) - (2 * b2 + dia2)
      minAllowedDist == Fine(dia1 + dia2) - 2 * ALLOWED_OVERLAP
  IN  Fine(da) * Fine(da) + Fine(db) * Fine(db) < minAllowedDist * minAllowedDist

checkCylinderCylinderIntersectionR2(pos1, dim1, orient1, pos2, dim2, orient2) ==
  IF orient1 = orient2
  THEN IF orient1 = "vertical"
       THEN IF ~checkIntervalOverlapR2(pos1.y, dim1.height, pos2.y, dim2.height)
            THEN FALSE
            ELSE CircleOverlapR2(pos1.x, pos1.z, dim1.length, pos2.x, pos2.z, dim2.length)
       ELSE IF (dim1.length > dim1.width) = (dim2.length > dim2.width)
            THEN IF dim1.length > dim1.width
                 THEN IF ~checkIntervalOverlapR2(pos1.x, dim1.length, pos2.x, dim2.length)
                      THEN FALSE
                      ELSE CircleOverlapR2(pos1.y, pos1.z, dim1.height, pos2.y, pos2.z, dim2.height)
                 ELSE IF ~checkIntervalOverlapR2(pos1.z, dim1.width, pos2.z, dim2.width)
                      THEN FALSE
                      ELSE CircleOverlapR2(pos1.x, pos1.y, dim1.height, pos2.x, pos2.y, dim2.height)
            ELSE TRUE
  ELSE TRUE

(* distSq < (radius - ALLOWED_OVERLAP)^2 between the axis of the cylinder   *)
(* and the nearest point of the box, in the plane across the axis           *)
BoxCircleOverlapR2(boxA, lenA, boxB, lenB, cylA, cylB, dia) ==
  LET ca == 2 * cylA + dia
      cb == 2 * cylB + dia
      da == ca - Clamp2(ca, boxA, lenA)
      db == cb - Clamp2(cb, boxB, lenB)
      minDist == Fine(dia) - 2 * ALLOWED_OVERLAP
  IN  Fine(da) * Fine(da) + Fine(db) * Fine(db) < minDist * minDist

checkBoxCylinderIntersectionR2(boxPos, boxDim, cylPos, cylDim, cylOrient) ==
  IF cylOrient = "vertical"
  THEN /\ checkIntervalOverlapR2(boxPos.y, boxDim.height, cylPos.y, cylDim.height)
       /\ BoxCircleOverlapR2(boxPos.x, boxDim.length, boxPos.z, boxDim.width,
                             cylPos.x, cylPos.z, cylDim.length)
  ELSE IF cylDim.length > cylDim.width
       THEN /\ checkIntervalOverlapR2(boxPos.x, boxDim.length, cylPos.x, cylDim.length)
            /\ BoxCircleOverlapR2(boxPos.y, boxDim.height, boxPos.z, boxDim.width,
                                  cylPos.y, cylPos.z, cylDim.height)
       ELSE /\ checkIntervalOverlapR2(boxPos.z, boxDim.width, cylPos.z, cylDim.width)
            /\ BoxCircleOverlapR2(boxPos.x, boxDim.length, boxPos.y, boxDim.height,
                                  cylPos.x, cylPos.y, cylDim.height)

checkIntersectionR2(pos1, dim1, pos2, dim2, item1Type, item2Type, orientation1, orientation2) ==
  IF item1Type = "roll" /\ item2Type = "roll"
  THEN checkCylinderCylinderIntersectionR2(pos1, dim1, orientation1, pos2, dim2, orientation2)
  ELSE IF ~checkAABBIntersectionR2(pos1, dim1, pos2, dim2) THEN FALSE
  ELSE IF item1Type = "box" /\ item2Type = "box" THEN TRUE
  ELSE IF item1Type = "roll" /\ item2Type # "roll"
  THEN checkBoxCylinderIntersectionR2(pos2, dim2, pos1, dim1, orientation1)
  ELSE IF item1Type # "roll" /\ item2Type = "roll"
  THEN checkBoxCylinderIntersectionR2(pos1, dim1, pos2, dim2, orientation2)
  ELSE TRUE

(* the call sites that pass no item types use the defaults 'box', 'box' *)
checkIntersectionDefault(pos1, dim1, pos2, dim2) ==
  checkIntersection(pos1, dim1, pos2, dim2, "box", "box", "vertical", "vertical")

----------------------------------------------------------------------------
(* JavaScript number arithmetic where a division by zero can occur:         *)
(* Math.floor(a / 0) is Infinity for a > 0, Infinity * 0 is NaN, every      *)
(* comparison with NaN is false and NaN !== NaN is true.                    *)

Infinity == 1000000000
NegInfinity == -1000000000
NaN == -999999999

IsFinite(a) == a # Infinity /\ a # NegInfinity /\ a # NaN

(* Math.floor(a / b) *)
JFloorDiv(a, b) ==
  IF b = 0 THEN (IF a > 0 THEN Infinity ELSE IF a < 0 THEN NegInfinity ELSE NaN)
  ELSE IF b > 0 THEN a \div b ELSE (-a) \div (-b)

JNeg(a) == IF a = Infinity THEN NegInfinity ELSE IF a = NegInfinity THEN Infinity
           ELSE IF a = NaN THEN NaN ELSE -a

JMul(a, b) ==
  IF a = NaN \/ b = NaN THEN NaN
  ELSE IF IsFinite(a) /\ IsFinite(b) THEN a * b
  ELSE IF a = 0 \/ b = 0 THEN NaN
  ELSE IF (a > 0) = (b > 0) THEN Infinity ELSE NegInfinity

JAdd(a, b) ==
  IF a = NaN \/ b = NaN THEN NaN
  ELSE IF IsFinite(a) /\ IsFinite(b) THEN a + b
  ELSE IF IsFinite(a) THEN b
  ELSE IF IsFinite(b) THEN a
  ELSE IF a = b THEN a ELSE NaN

(* sign of a - b as a sort comparator uses it: NaN counts as 0 *)
JSignDiff(a, b) ==
  IF a = NaN \/ b = NaN THEN 0
  ELSE IF a = b THEN 0
  ELSE IF a > b THEN 1 ELSE -1

(* a === b *)
JEq(a, b) == a # NaN /\ b # NaN /\ a = b

----------------------------------------------------------------------------
(* PatternGenerator *)

(* the elements of s in order, each kept at its first occurrence *)
Dedup(s) ==
  LET kept == SelectSeq([i \in 1..Len(s) |-> i], LAMBDA i : \A j \in 1..(i - 1) : s[j] # s[i])
  IN  [k \in 1..Len(kept) |-> s[kept[k]]]

getAllOrientations(dims) ==
  Dedup(<< Dims(dims.length, dims.width, dims.height),
           Dims(dims.length, dims.height, dims.width),
           Dims(dims.width, dims.length, dims.height),
           Dims(dims.width, dims.height, dims.length),
           Dims(dims.height, dims.length, dims.width),
           Dims(dims.height, dims.width, dims.length) >>)

(* baseDims of both pattern generators *)
BaseDims(itemDims, hasPallet, palletDims) ==
  IF hasPallet
  THEN Dims(palletDims.length, palletDims.width, itemDims.height + palletDims.height)
  ELSE itemDims

RowsOf(n, rowWidth, orient, perRow) ==
  [i \in 1..n |-> [rowWidth |-> rowWidth, itemOrientation |-> orient, itemsPerRow |-> perRow]]

(* the comparator of patterns.sort: negative when a goes before b *)
PatternCmp(a, b) ==
  IF ~JEq(a.totalItems, b.totalItems)
  THEN JSignDiff(b.totalItems, a.totalItems)
  ELSE JSignDiff(b.utilNum, a.utilNum)

(* stable insertion of e into the sorted sequence s *)
RECURSIVE InsertPattern(_, _)
InsertPattern(s, e) ==
  IF s = <<>> THEN <<e>>
  ELSE IF PatternCmp(s[Len(s)], e) > 0
       THEN InsertPattern(SubSeq(s, 1, Len(s) - 1), e) \o <<s[Len(s)]>>
       ELSE s \o <<e>>

RECURSIVE SortPatterns(_, _)
SortPatterns(s, acc) ==
  IF s = <<>> THEN acc ELSE SortPatterns(Tail(s), InsertPattern(acc, Head(s)))

Slice(s, n) == SubSeq(s, 1, Min(n, Len(s)))

(* the (lengthRows, widthRows) configurations tried for one orientation *)
BoxConfigs(orientation, containerDims) ==
  LET maxLengthRows == JFloorDiv(containerDims.width, orientation.width)
      maxWidthRows == JFloorDiv(containerDims.width, orientation.length)
      extra == IF maxLengthRows # NaN /\ maxWidthRows # NaN /\ maxLengthRows > 1 /\ maxWidthRows > 0
               THEN Flatten([lr \in 1..Min(maxLengthRows, 3) |->
                      Flatten([w \in 1..(Min(maxWidthRows, 3) + 1) |->
                        LET wr == w - 1
                            usedWidth == lr * orientation.width + wr * orientation.length
                        IN  IF lr = 1 /\ wr = 0 THEN <<>>
                            ELSE IF usedWidth <= containerDims.width + BoxWidthTol
                                 THEN << <<lr, wr>> >> ELSE <<>>])])
               ELSE <<>>
  IN  << <<1, 0>>, <<0, 1>> >> \o extra

BoxPatternOf(orientation, rowConfig, containerDims) ==
  LET itemsPerRowL == JFloorDiv(containerDims.width, orientation.width)
      itemsPerRowW == JFloorDiv(containerDims.width, orientation.length)
      rows == RowsOf(rowConfig[1], orientation.length, "length", itemsPerRowL)
              \o RowsOf(rowConfig[2], orientation.width, "width", itemsPerRowW)
      itemsInLayer == JAdd(JMul(rowConfig[1], itemsPerRowL), JMul(rowConfig[2], itemsPerRowW))
      layers == JFloorDiv(containerDims.height, orientation.height)
      depthPositions == JFloorDiv(containerDims.length, orientation.length)
      totalItems == JMul(JMul(itemsInLayer, layers), depthPositions)
      usedVolume == JMul(totalItems, orientation.length * orientation.width * orientation.height)
  IN  IF rows = <<>> \/ JEq(itemsInLayer, 0) \/ JEq(totalItems, 0) THEN <<>>
      ELSE << [rows |-> rows, totalItems |-> totalItems, utilNum |-> usedVolume,
               utilDen |-> containerDims.length * containerDims.width * containerDims.height,
               orientation |-> orientation] >>

generateBoxPatterns(itemDims, hasPallet, palletDims, containerDims) ==
  LET baseDims == BaseDims(itemDims, hasPallet, palletDims)
      orientations == getAllOrientations(baseDims)
      patterns == Flatten([o \in 1..Len(orientations) |->
                    LET configs == BoxConfigs(orientations[o], containerDims)
                    IN  Flatten([c \in 1..Len(configs) |->
                          BoxPatternOf(orientations[o], configs[c], containerDims)])])
  IN  Slice(SortPatterns(patterns, <<>>), MaxBoxPatterns)

(* one (rowsL, rowsW) combination of generatePalletPatterns *)
PalletPatternOf(baseDims, rowsL, rowsW, containerDims) ==
  LET usedWidth == rowsL * baseDims.width + rowsW * baseDims.length
      itemsPerRowL == JFloorDiv(containerDims.width, baseDims.width)
      itemsPerRowW == JFloorDiv(containerDims.width, baseDims.length)
      depthPositions == JFloorDiv(containerDims.length, Max(baseDims.length, baseDims.width))
      totalItems == JMul(JAdd(JMul(rowsL, itemsPerRowL), JMul(rowsW, itemsPerRowW)), depthPositions)
      rows == RowsOf(rowsL, baseDims.length, "length", itemsPerRowL)
              \o RowsOf(rowsW, baseDims.width, "width", itemsPerRowW)
  IN  IF usedWidth > containerDims.width + PalletWidthTol THEN <<>>
      ELSE IF rowsL = 0 /\ rowsW = 0 THEN <<>>
      ELSE IF JEq(totalItems, 0) THEN <<>>
      ELSE << [rows |-> rows, totalItems |-> totalItems, utilNum |-> usedWidth,
               utilDen |-> containerDims.width, orientation |-> baseDims] >>

generatePalletPatterns(itemDims, hasPallet, palletDims, containerDims) ==
  LET baseDims == BaseDims(itemDims, hasPallet, palletDims)
      maxRowsLength == JFloorDiv(containerDims.width, baseDims.width)
      maxRowsWidth == JFloorDiv(containerDims.width, baseDims.length)
      patterns == Flatten([l \in 1..(Min(maxRowsLength, 5) + 1) |->
                    Flatten([w \in 1..(Min(maxRowsWidth, 5) + 1) |->
                      PalletPatternOf(baseDims, l - 1, w - 1, containerDims)])])
  IN  Slice(SortPatterns(patterns, <<>>), MaxPalletPatterns)

(* The three loop bounds of generatePlacementSlots.  A bound is Infinity    *)
(* exactly when its divisor is 0, and then the loop's step is 0 as well, so *)
(* its break test never becomes true.                                       *)
SlotLoopBounds(pattern, containerDims, isPalletized) ==
  LET baseDims == pattern.orientation
      firstRow == pattern.rows[1]
      depthIncrement == IF firstRow.itemOrientation = "length" THEN baseDims.length ELSE baseDims.width
      itemWidth == IF firstRow.itemOrientation = "length" THEN baseDims.width ELSE baseDims.length
  IN  [maxLayers |-> IF isPalletized THEN 1 ELSE JFloorDiv(containerDims.height, baseDims.height),
       maxDepthPositions |-> JFloorDiv(containerDims.length, depthIncrement),
       widthPositions |-> JFloorDiv(containerDims.width, itemWidth),
       depthIncrement |-> depthIncrement,
       itemWidth |-> itemWidth,
       itemLength |-> IF firstRow.itemOrientation = "length" THEN baseDims.length ELSE baseDims.width,
       itemRotation |-> IF firstRow.itemOrientation = "length" THEN 0 ELSE 90]

(* number of iterations a loop "for (i = 0; i < bound; i++) { if (i*step +  *)
(* step > limit + tol) break; ... }" makes; Infinity when it never ends     *)
LoopCount(bound, step, limit) ==
  IF bound = NaN THEN 0
  ELSE IF bound = Infinity
       THEN (IF step <= 0 THEN Infinity ELSE Max(0, (limit + SlotTol) \div step))
       ELSE IF bound <= 0 THEN 0
       ELSE IF step <= 0 THEN (IF step > limit + SlotTol THEN 0 ELSE bound)
       ELSE Min(bound, Max(0, (limit + SlotTol) \div step))

(* generatePlacementSlots does not return: one of its loops runs for ever   *)
(* (and, when the innermost one is reached, pushes slots without end)       *)
SlotLoopsDiverge(nDepth, nLayer, nWidth) ==
  \/ nDepth = Infinity
  \/ nDepth >= 1 /\ nLayer = Infinity
  \/ nDepth >= 1 /\ nLayer >= 1 /\ nWidth = Infinity

SlotBoundsDiverge(b, height, containerDims) ==
  SlotLoopsDiverge(LoopCount(b.maxDepthPositions, b.depthIncrement, containerDims.length),
                   LoopCount(b.maxLayers, height, containerDims.height),
                   LoopCount(b.widthPositions, b.itemWidth, containerDims.width))

generatePlacementSlotsDiverges(pattern, containerDims, isPalletized) ==
  IF pattern.rows = <<>> THEN FALSE
  ELSE SlotBoundsDiverge(SlotLoopBounds(pattern, containerDims, isPalletized),
                         pattern.orientation.height, containerDims)

(* the slots the three nested loops push, in order *)
SlotGrid(b, height, nDepth, nLayer, nWidth) ==
  Flatten([depthPos \in 1..nDepth |->
    Flatten([layer \in 1..nLayer |->
      [widthPos \in 1..nWidth |->
        [position |-> Vec((depthPos - 1) * b.depthIncrement, (layer - 1) * height,
                          (widthPos - 1) * b.itemWidth),
         dimensions |-> Dims(b.itemLength, b.itemWidth, height),
         rotation |-> b.itemRotation]]])])

SlotsOfBounds(b, height, containerDims) ==
  SlotGrid(b, height,
           LoopCount(b.maxDepthPositions, b.depthIncrement, containerDims.length),
           LoopCount(b.maxLayers, height, containerDims.height),
           LoopCount(b.widthPositions, b.itemWidth, containerDims.width))

generatePlacementSlots(pattern, containerDims, isPalletized) ==
  IF pattern.rows = <<>> THEN <<>>
  ELSE SlotsOfBounds(SlotLoopBounds(pattern, containerDims, isPalletized),
                     pattern.orientation.height, containerDims)

----------------------------------------------------------------------------
(* PatternGenerator: rolls *)

(* k * d * 0.8660254, the coordinate of row k after k additions of hexStep, *)
(* rounded up to the model's length grid                                    *)
HoneycombRise(k, d) == (k * d * 4330127 + 4999999) \div 5000000

(* "r = d / 2" on the model's length grid *)
HoneycombRadius(d) == (d + 1) \div 2

(* number of passes of "while (pos + step <= limit + 0.01) pos += step"     *)
(* that starts at start, for step > 0                                       *)
HoneycombRun(start, step, limit) ==
  IF start + step > limit + 1 THEN 0 ELSE (limit + 1 - step - start) \div step + 1

(* number of rows or layers: passes of the outer while-loop, which rises    *)
(* by hexStep against the limit                                             *)
RECURSIVE HoneycombRows(_, _, _)
HoneycombRows(k, d, limit) ==
  IF HoneycombRise(k, d) + d <= limit + 1 THEN HoneycombRows(k + 1, d, limit) ELSE k

(* calculateHoneycombSlots never returns: a loop whose step is not positive *)
(* and whose condition holds at its start                                   *)
calculateHoneycombSlotsDiverges(cont, d, l, mode) ==
  IF mode = "vertical"
  THEN d <= 0 /\ d <= cont.width + 1
  ELSE /\ d <= cont.height + 1
       /\ d <= 0 \/ (d <= cont.length + 1 /\ l <= 0 /\ l <= cont.width + 1)

(* the slots of one row of the vertical mode *)
HoneycombVerticalRow(cont, d, l, k) ==
  LET xStart == IF k % 2 = 1 THEN HoneycombRadius(d) + 1 ELSE 0
  IN  [j \in 1..HoneycombRun(xStart, d, cont.length) |->
        [position |-> Vec(xStart + (j - 1) * d, 0, HoneycombRise(k, d)),
         dimensions |-> Dims(d, d, l), rotation |-> 0, orientation |-> "vertical"]]

(* the slots of one layer of the horizontal-z mode: x outside, z inside *)
HoneycombHorizontalLayer(cont, d, l, k) ==
  LET xStart == IF k % 2 = 1 THEN HoneycombRadius(d) ELSE 0
      nz == HoneycombRun(0, l, cont.width)
  IN  [j \in 1..(HoneycombRun(xStart, d, cont.length) * nz) |->
        [position |-> Vec(xStart + ((j - 1) \div nz) * d, HoneycombRise(k, d), ((j - 1) % nz) * l),
         dimensions |-> Dims(d, l, d), rotation |-> 90, orientation |-> "horizontal"]]

(* calculateHoneycombSlots, where it returns *)
calculateHoneycombSlots(cont, d, l, mode) ==
  IF mode = "vertical"
  THEN IF d <= 0 THEN <<>>
       ELSE Flatten([k \in 1..HoneycombRows(0, d, cont.width) |->
                      HoneycombVerticalRow(cont, d, l, k - 1)])
  ELSE IF d <= 0 \/ l <= 0 THEN <<>>
       ELSE Flatten([k \in 1..HoneycombRows(0, d, cont.height) |->
                      HoneycombHorizontalLayer(cont, d, l, k - 1)])

(* pi * (d / 2)^2 * l with pi taken as 355 / 113, in whole model units *)
RollVolume(d, l) == (355 * d * d * l) \div 452

(* a roll pattern; calcUtilization is kept as the fraction utilNum /        *)
(* utilDen of the container volume                                          *)
RollPattern(patternType, slotCount, d, l, cont, orientation) ==
  [rows |-> <<>>, totalItems |-> slotCount,
   utilNum |-> slotCount * RollVolume(d, l),
   utilDen |-> cont.length * cont.width * cont.height,
   orientation |-> orientation, patternType |-> patternType]

(* the slots of the top part of the hybrid pattern: horizontal-z slots of   *)
(* the container above the standing rolls, raised by their length           *)
HybridTopSlots(cont, d, l) ==
  LET top == calculateHoneycombSlots([cont EXCEPT !.height = cont.height - l], d, l, "horizontal-z")
  IN  [k \in 1..Len(top) |-> [top[k] EXCEPT !.position.y = top[k].position.y + l]]

(* "patterns.sort((a, b) => b.totalItems - a.totalItems)" *)
SortByTotalItems(patterns) ==
  LET n == Len(patterns)
      rank == [i \in 1..n |->
                Cardinality({j \in 1..n : patterns[j].totalItems > patterns[i].totalItems
                                           \/ (patterns[j].totalItems = patterns[i].totalItems /\ j <= i)})]
  IN  [r \in 1..n |-> patterns[CHOOSE i \in 1..n : rank[i] = r]]

generateRollPatternsDiverges(d, l, cont) ==
  \/ l <= cont.height /\ calculateHoneycombSlotsDiverges(cont, d, l, "vertical")
  \/ l <= cont.length /\ calculateHoneycombSlotsDiverges(cont, d, l, "horizontal-z")
  \/ /\ l <= cont.height
     /\ cont.height - l >= d
     /\ calculateHoneycombSlotsDiverges([cont EXCEPT !.height = cont.height - l], d, l, "horizontal-z")

generateRollPatterns(d, l, cont) ==
  SortByTotalItems(
    (IF l <= cont.height
     THEN << RollPattern("vertical-honeycomb", Len(calculateHoneycombSlots(cont, d, l, "vertical")),
                         d, l, cont, Dims(d, d, l)) >>
     ELSE <<>>)
    \o (IF l <= cont.length
        THEN << RollPattern("horizontal-honeycomb", Len(calculateHoneycombSlots(cont, d, l, "horizontal-z")),
                            d, l, cont, Dims(l, d, d)) >>
        ELSE <<>>)
    \o (IF l <= cont.height /\ cont.height - l >= d
        THEN << RollPattern("hybrid",
                            Len(calculateHoneycombSlots(cont, d, l, "vertical")) + Len(HybridTopSlots(cont, d, l)),
                            d, l, cont, Dims(d, d, l)) >>
        ELSE <<>>))

generateRollPlacementSlots(pattern, d, l, cont) ==
  IF pattern.patternType = "vertical-honeycomb" THEN calculateHoneycombSlots(cont, d, l, "vertical")
  ELSE IF pattern.patternType = "horizontal-honeycomb" THEN calculateHoneycombSlots(cont, d, l, "horizontal-z")
  ELSE IF pattern.patternType = "hybrid"
  THEN IF cont.height - l >= d
       THEN calculateHoneycombSlots(cont, d, l, "vertical") \o HybridTopSlots(cont, d, l)
       ELSE calculateHoneycombSlots(cont, d, l, "vertical")
  ELSE <<>>

----------------------------------------------------------------------------
(* PatternEvaluator *)

(* a variant in which the number of items fitted does not enter the score *)
calculateScoreBySpace(itemsFitted, pattern, validSlotsCount) ==
  [whole |-> validSlotsCount, utilNum |-> pattern.utilNum, utilDen |-> pattern.utilDen]

(* calculateScore: itemsFitted * 1000000 + utilizationScore * 100 +         *)
(* validSlotsCount, with utilizationScore = utilNum / utilDen * 100 kept    *)
(* as an exact fraction                                                     *)
calculateScore(itemsFitted, pattern, validSlotsCount) ==
  [whole |-> itemsFitted * 1000000 + validSlotsCount,
   utilNum |-> pattern.utilNum, utilDen |-> pattern.utilDen]

(* score a > score b, for scores of patterns of one list (same utilDen) *)
ScoreGreater(a, b) ==
  LET g == GCD(a.utilDen, 10000)
      k == 10000 \div g
      d == a.utilDen \div g
      num == (a.utilNum - b.utilNum) * k
      q == num \div d
      r == num - q * d
      w == a.whole - b.whole + q
  IN  w > 0 \/ (w = 0 /\ r > 0)

(* the evaluation of one pattern from its slots and its valid slots *)
EvaluationOf(pattern, itemsFitted, validSlots) ==
  [slots |-> validSlots, itemsFitted |-> itemsFitted, isNull |-> FALSE,
   score |-> calculateScore(itemsFitted, pattern, Len(validSlots))]

EvaluationOfSlots(pattern, slots, n, containerDims) ==
  EvaluationOf(pattern, Min(Len(slots), n),
               SelectSeq(slots, LAMBDA sl : isWithinBounds(sl.position, sl.dimensions, containerDims)))

evaluateOne(pattern, n, containerDims, isPalletized) ==
  EvaluationOfSlots(pattern, generatePlacementSlots(pattern, containerDims, isPalletized),
                    n, containerDims)

NoEvaluation == [slots |-> <<>>, itemsFitted |-> 0, isNull |-> TRUE]

(* a variant in which the evaluation examined last always replaces the best *)
BetterOfLast(best, ev) == ev

(* "if (!bestEvaluation || score > bestEvaluation.score)" *)
BetterOf(best, ev) ==
  IF best.isNull THEN ev ELSE IF ScoreGreater(ev.score, best.score) THEN ev ELSE best

(* the loop over the patterns: best so far, strictly-greater replaces *)
RECURSIVE BestEvaluation(_, _, _, _, _, _)
BestEvaluation(patterns, i, best, n, containerDims, isPalletized) ==
  IF i > Len(patterns) THEN best
  ELSE BestEvaluation(patterns, i + 1,
                      BetterOf(best, evaluateOne(patterns[i], n, containerDims, isPalletized)),
                      n, containerDims, isPalletized)

(* patterns of a group as evaluatePalletPatterns / evaluateBoxPatterns      *)
(* generate them from the first item of the group                           *)
PatternsFor(kind, firstItem, containerDims) ==
  IF kind = "pallet"
  THEN generatePalletPatterns(firstItem.dimensions, firstItem.hasPallet, firstItem.palletDimensions, containerDims)
  ELSE generateBoxPatterns(firstItem.dimensions, firstItem.hasPallet, firstItem.palletDimensions, containerDims)

(* evaluate*Patterns where the time budget lets the loop examine the first  *)
(* examined patterns (examined = Len(patterns) when it is never exceeded)   *)
evaluatePatterns(kind, its, containerDims, examined) ==
  IF its = <<>> THEN NoEvaluation
  ELSE IF ~its[1].hasDimensions THEN NoEvaluation
  ELSE BestEvaluation(Slice(PatternsFor(kind, its[1], containerDims), examined), 1,
                      NoEvaluation, Len(its), containerDims, its[1].isPalletized)

SomePatternDiverges(patterns, containerDims, isPalletized) ==
  \E i \in 1..Len(patterns) :
    generatePlacementSlotsDiverges(patterns[i], containerDims, isPalletized)

evaluatePatternsDiverges(kind, its, containerDims, examined) ==
  /\ its # <<>>
  /\ its[1].hasDimensions
  /\ SomePatternDiverges(Slice(PatternsFor(kind, its[1], containerDims), examined),
                         containerDims, its[1].isPalletized)

(* "d" and "l" of evaluateRollPatterns: rollDimensions, else the smaller    *)
(* side of the footprint and the height of dimensions                       *)
RollDiameterOf(firstItem) ==
  IF firstItem.hasRoll THEN firstItem.rollDimensions.diameter
  ELSE Min(firstItem.dimensions.length, firstItem.dimensions.width)

RollLengthOf(firstItem) ==
  IF firstItem.hasRoll THEN firstItem.rollDimensions.length ELSE firstItem.dimensions.height

(* the patterns evaluateRollPatterns loops over *)
RollPatternsFor(its, containerDims) ==
  IF its = <<>> THEN <<>>
  ELSE IF ~its[1].hasRoll /\ ~its[1].hasDimensions THEN <<>>
  ELSE generateRollPatterns(RollDiameterOf(its[1]), RollLengthOf(its[1]), containerDims)

evaluateRollPatternsDiverges(its, containerDims) ==
  /\ its # <<>>
  /\ its[1].hasRoll \/ its[1].hasDimensions
  /\ generateRollPatternsDiverges(RollDiameterOf(its[1]), RollLengthOf(its[1]), containerDims)

(* one pass of the loop of evaluateRollPatterns *)
evaluateOneRoll(pattern, d, l, n, containerDims) ==
  EvaluationOfSlots(pattern, generateRollPlacementSlots(pattern, d, l, containerDims), n, containerDims)

(* the evaluations the loop of evaluateRollPatterns computes, in order; the *)
(* loop has no test of performance.now() and passes over every pattern      *)
RollEvaluations(its, containerDims) ==
  LET patterns == RollPatternsFor(its, containerDims)
  IN  [k \in 1..Len(patterns) |->
        evaluateOneRoll(patterns[k], RollDiameterOf(its[1]), RollLengthOf(its[1]), Len(its), containerDims)]

(* the evaluations the loop of evaluate*Patterns computes before the budget *)
(* is exceeded                                                              *)
GridEvaluations(kind, its, containerDims, examined) ==
  IF its = <<>> THEN <<>>
  ELSE IF ~its[1].hasDimensions THEN <<>>
  ELSE LET patterns == Slice(PatternsFor(kind, its[1], containerDims), examined)
       IN  [k \in 1..Len(patterns) |->
             evaluateOne(patterns[k], Len(its), containerDims, its[1].isPalletized)]

(* "if (!bestEvaluation || score > bestEvaluation.score)" over a sequence   *)
(* of evaluations                                                           *)
RECURSIVE BestOfEvaluations(_, _, _)
BestOfEvaluations(evaluations, i, best) ==
  IF i > Len(evaluations) THEN best
  ELSE BestOfEvaluations(evaluations, i + 1, BetterOf(best, evaluations[i]))

evaluateRollPatterns(its, containerDims) ==
  BestOfEvaluations(RollEvaluations(its, containerDims), 1, NoEvaluation)

----------------------------------------------------------------------------
(* PrecisePlacer *)

(* a variant that tests the container bounds only *)
validateSlotBoundsOnly(slot, cont, placed) ==
  isWithinBounds(slot.position, slot.dimensions, cont)

validateSlot(slot, cont, placed) ==
  /\ isWithinBounds(slot.position, slot.dimensions, cont)
  /\ \A k \in 1..Len(placed) :
        ~checkIntersectionDefault(slot.position, slot.dimensions,
                                  placed[k].position, placed[k].dimensions)

PlacedOf(item, position, rotation, dimensions, orientation) ==
  [itemId |-> item.id, item |-> item, position |-> position, rotation |-> rotation,
   dimensions |-> dimensions, orientation |-> orientation]

RECURSIVE placeItemsFromSlotsLoop(_, _, _, _, _, _, _)
placeItemsFromSlotsLoop(its, slots, slotIndex, cont, existing, placed, remaining) ==
  IF its = <<>> THEN [placed |-> placed, remaining |-> remaining]
  ELSE LET item == Head(its)
       IN  IF slotIndex > Len(slots)
           THEN placeItemsFromSlotsLoop(Tail(its), slots, slotIndex, cont, existing,
                                        placed, Append(remaining, item))
           ELSE LET slot == slots[slotIndex]
                IN  IF item.isPalletized /\ slot.position.y > FloorTol
                    THEN placeItemsFromSlotsLoop(Tail(its), slots, slotIndex, cont, existing,
                                                 placed, Append(remaining, item))
                    ELSE IF validateSlot(slot, cont, existing \o placed)
                         THEN placeItemsFromSlotsLoop(Tail(its), slots, slotIndex + 1, cont, existing,
                                Append(placed, PlacedOf(item, slot.position, slot.rotation,
                                                        slot.dimensions, "horizontal")),
                                remaining)
                         ELSE placeItemsFromSlotsLoop(Tail(its), slots, slotIndex, cont, existing,
                                                      placed, Append(remaining, item))

(* a variant whose loop stops after as many items as there are slots *)
placeItemsFromSlotsShort(its, slots, cont, existing) ==
  placeItemsFromSlotsLoop(Slice(its, Len(slots)), slots, 1, cont, existing, <<>>, <<>>)

placeItemsFromSlots(its, slots, cont, existing) ==
  placeItemsFromSlotsLoop(its, slots, 1, cont, existing, <<>>, <<>>)

----------------------------------------------------------------------------
(* calculateCoilLoading (src/utils/packingAlgorithm.ts) *)

(* a variant in which the rows rise by a full diameter, as in a plain grid *)
HexStepGrid(diameter) == diameter

(* diameter * sin(60 degrees), rounded up to the model's length grid *)
HexStep(diameter) == (diameter * 866026 + 999999) \div 1000000

(* number of rolls the inner for-loop of one row can push before its own   *)
(* bound or the width test "xPos + radius > container.width" stops it       *)
CoilRowCapacity(cont, diameter, isStaggered) ==
  LET radius == diameter \div 2
      itemsPerNormalRow == JFloorDiv(cont.width, diameter)
      limitInThisRow == IF isStaggered THEN JAdd(itemsPerNormalRow, -1) ELSE itemsPerNormalRow
      startX == IF isStaggered THEN radius + diameter \div 2 ELSE radius
  IN  IF limitInThisRow = NaN THEN 0
      ELSE IF limitInThisRow = Infinity
           THEN (IF startX + radius > cont.width THEN 0 ELSE Infinity)
           ELSE IF limitInThisRow <= 0 THEN 0
           ELSE IF startX + radius > cont.width THEN 0
           ELSE Min(limitInThisRow, (cont.width - radius - startX) \div diameter + 1)

(* the while-loop "while (count < item.quantity)" never ends: the height    *)
(* test never breaks it and no row ever places a roll                       *)
calculateCoilLoadingDiverges(cont, diameter, quantity) ==
  /\ quantity > 0
  /\ HexStep(diameter) <= 0
  /\ (diameter \div 2) + (diameter \div 2) <= cont.height
  /\ CoilRowCapacity(cont, diameter, FALSE) = 0
  /\ CoilRowCapacity(cont, diameter, TRUE) = 0

RECURSIVE CoilRows(_, _, _, _, _, _, _)
CoilRows(cont, diameter, length, quantity, currentRow, count, acc) ==
  LET radius == diameter \div 2
      verticalStep == HexStep(diameter)
      yPos == radius + currentRow * verticalStep
      isStaggered == currentRow % 2 # 0
      startX == IF isStaggered THEN radius + diameter \div 2 ELSE radius
      cap == CoilRowCapacity(cont, diameter, isStaggered)
      n == IF cap = Infinity THEN quantity - count ELSE Min(cap, quantity - count)
      row == [i \in 1..n |-> Vec(startX + (i - 1) * diameter, yPos, length \div 2)]
  IN  IF count >= quantity THEN acc
      ELSE IF yPos + radius > cont.height THEN acc
      ELSE CoilRows(cont, diameter, length, quantity, currentRow + 1, count + Len(row), acc \o row)

(* positions of algoResult.placed, in order *)
calculateCoilLoading(cont, diameter, length, quantity) ==
  CoilRows(cont, diameter, length, quantity, 0, 0, <<>>)

----------------------------------------------------------------------------
(* Sorting by an integer score, stable (Array.prototype.sort) *)

SortByScore(s) ==
  LET n == Len(s)
      rank == [i \in 1..n |->
                Cardinality({j \in 1..n : s[j].score < s[i].score
                                           \/ (s[j].score = s[i].score /\ j <= i)})]
  IN  [r \in 1..n |-> s[CHOOSE i \in 1..n : rank[i] = r]]

NoPosition == [found |-> FALSE]

Found(position, rotation, dimensions, orientation) ==
  [found |-> TRUE, position |-> position, rotation |-> rotation,
   dimensions |-> dimensions, orientation |-> orientation]

(* first element of a candidate sequence that a test accepts *)
FirstAccepted(cands, Accept(_)) ==
  LET ok == {i \in 1..Len(cands) : Accept(cands[i])}
  IN  IF ok = {} THEN NoPosition
      ELSE cands[CHOOSE i \in ok : \A j \in ok : i <= j]

----------------------------------------------------------------------------
(* BoxStrategy *)

BoxHasSupport(pos, dims, placed) ==
  LET boxBottomArea == dims.length * dims.width
      touching == SelectSeq(placed, LAMBDA it : Abs(it.position.y + it.dimensions.height - pos.y) < FloorTol)
      areas == [k \in 1..Len(touching) |->
                 Max(0, Min(pos.x + dims.length, touching[k].position.x + touching[k].dimensions.length)
                        - Max(pos.x, touching[k].position.x))
                 * Max(0, Min(pos.z + dims.width, touching[k].position.z + touching[k].dimensions.width)
                          - Max(pos.z, touching[k].position.z))]
      supportedArea == SeqSum(areas)
  IN  IF boxBottomArea > 0 THEN 4 * supportedArea >= 3 * boxBottomArea
      ELSE IF boxBottomArea < 0 THEN 4 * supportedArea <= 3 * boxBottomArea
      ELSE supportedArea > 0

BoxCanPlaceAt(item, position, dimensions, placed, cont) ==
  /\ isWithinBounds(position, dimensions, cont)
  /\ ~(item.isPalletized /\ position.y > FloorTol)
  /\ \A k \in 1..Len(placed) :
        ~checkIntersectionDefault(position, dimensions, placed[k].position, placed[k].dimensions)
  /\ (position.y > FloorTol => BoxHasSupport(position, dimensions, placed))

isPointInsidePlacedItem(point, placed) ==
  \E k \in 1..Len(placed) :
    /\ point.x > placed[k].position.x /\ point.x < placed[k].position.x + placed[k].dimensions.length
    /\ point.y > placed[k].position.y /\ point.y < placed[k].position.y + placed[k].dimensions.height
    /\ point.z > placed[k].position.z /\ point.z < placed[k].position.z + placed[k].dimensions.width

generateCornerPoints(placed, cont) ==
  IF placed = <<>> THEN << [position |-> Vec(0, 0, 0), score |-> 0] >>
  ELSE LET raw == <<Vec(0, 0, 0)>> \o Flatten([k \in 1..Len(placed) |->
                    LET pos == placed[k].position
                        dims == placed[k].dimensions
                    IN  SelectSeq(<< Vec(pos.x + dims.length, pos.y, pos.z),
                                     Vec(pos.x, pos.y, pos.z + dims.width),
                                     Vec(pos.x, pos.y + dims.height, pos.z) >>,
                                  LAMBDA pt : pt.x <= cont.length /\ pt.y <= cont.height /\ pt.z <= cont.width)])
           pointSet == Dedup(raw)
           outside == SelectSeq(pointSet, LAMBDA pt : ~isPointInsidePlacedItem(pt, placed))
           corners == [k \in 1..Len(outside) |->
                        [position |-> outside[k],
                         score |-> outside[k].y * 1000000 + outside[k].x * 1000 + outside[k].z]]
       IN  SortByScore(corners)

(* uniqueOrientations.sort: ascending height, then descending footprint;   *)
(* the key below orders exactly so while every footprint is < 10^5          *)
RECURSIVE InsertOrientation(_, _)
InsertOrientation(s, e) ==
  IF s = <<>> THEN <<e>>
  ELSE LET a == s[Len(s)].dimensions
           b == e.dimensions
           cmp == IF a.height # b.height THEN a.height - b.height
                  ELSE b.length * b.width - a.length * a.width
       IN  IF cmp > 0
           THEN InsertOrientation(SubSeq(s, 1, Len(s) - 1), e) \o <<s[Len(s)]>>
           ELSE s \o <<e>>

RECURSIVE SortOrientations(_, _)
SortOrientations(s, acc) ==
  IF s = <<>> THEN acc ELSE SortOrientations(Tail(s), InsertOrientation(acc, Head(s)))

RECURSIVE DedupByDims(_, _)
DedupByDims(s, seen) ==
  IF s = <<>> THEN <<>>
  ELSE IF Head(s).dimensions \in seen THEN DedupByDims(Tail(s), seen)
       ELSE <<Head(s)>> \o DedupByDims(Tail(s), seen \cup {Head(s).dimensions})

BoxGetOrientations(dims, hasPallet, palletDims) ==
  IF hasPallet
  THEN LET totalHeight == dims.height + palletDims.height
       IN  DedupByDims(<< [rotation |-> 0, dimensions |-> Dims(palletDims.length, palletDims.width, totalHeight)],
                          [rotation |-> 90, dimensions |-> Dims(palletDims.width, palletDims.length, totalHeight)] >>, {})
  ELSE SortOrientations(DedupByDims(
         << [rotation |-> 0, dimensions |-> Dims(dims.length, dims.width, dims.height)],
            [rotation |-> 0, dimensions |-> Dims(dims.length, dims.height, dims.width)],
            [rotation |-> 0, dimensions |-> Dims(dims.width, dims.length, dims.height)],
            [rotation |-> 0, dimensions |-> Dims(dims.width, dims.height, dims.length)],
            [rotation |-> 0, dimensions |-> Dims(dims.height, dims.length, dims.width)],
            [rotation |-> 0, dimensions |-> Dims(dims.height, dims.width, dims.length)] >>, {}), <<>>)

BoxUsesPattern(item, placed) == placed = <<>> \/ item.isPalletized

(* tryPatternBasedPlacement does not return *)
FirstPatternDiverges(patterns, cont, isPalletized) ==
  /\ patterns # <<>>
  /\ generatePlacementSlotsDiverges(patterns[1], cont, isPalletized)

BoxTryPatternDiverges(item, cont) ==
  FirstPatternDiverges(generateBoxPatterns(item.dimensions, item.hasPallet, item.palletDimensions, cont),
                       cont, item.isPalletized)

(* the first slot of the sequence that canPlaceAt accepts *)
BoxFirstFreeSlot(slots, item, placed, cont) ==
  FirstAccepted([k \in 1..Len(slots) |->
                  Found(slots[k].position, slots[k].rotation, slots[k].dimensions, "horizontal")],
                LAMBDA c : BoxCanPlaceAt(item, c.position, c.dimensions, placed, cont))

BoxTryFirstPattern(patterns, item, placed, cont) ==
  IF patterns = <<>> THEN NoPosition
  ELSE BoxFirstFreeSlot(generatePlacementSlots(patterns[1], cont, item.isPalletized),
                        item, placed, cont)

BoxTryPatternBasedPlacement(item, placed, cont) ==
  BoxTryFirstPattern(generateBoxPatterns(item.dimensions, item.hasPallet, item.palletDimensions, cont),
                     item, placed, cont)

BoxFindBestPositionDiverges(item, placed, cont) ==
  /\ item.hasDimensions
  /\ BoxUsesPattern(item, placed)
  /\ BoxTryPatternDiverges(item, cont)

(* the loop over the corner points and, for each, over the orientations *)
BoxTryCornerPoints(cornerPoints, orientations, item, placed, cont) ==
  FirstAccepted(Flatten([c \in 1..Len(cornerPoints) |->
                  [o \in 1..Len(orientations) |->
                    Found(cornerPoints[c].position, orientations[o].rotation,
                          orientations[o].dimensions, "horizontal")]]),
                LAMBDA c : BoxCanPlaceAt(item, c.position, c.dimensions, placed, cont))

(* "if (patternResult) return patternResult;" and the corner search after it *)
BoxAfterPattern(patternResult, item, placed, cont) ==
  IF patternResult.found THEN patternResult
  ELSE BoxTryCornerPoints(generateCornerPoints(placed, cont),
                          BoxGetOrientations(item.dimensions, item.hasPallet, item.palletDimensions),
                          item, placed, cont)

BoxFindBestPosition(item, placed, cont) ==
  IF ~item.hasDimensions THEN NoPosition
  ELSE BoxAfterPattern(IF BoxUsesPattern(item, placed)
                       THEN BoxTryPatternBasedPlacement(item, placed, cont)
                       ELSE NoPosition,
                       item, placed, cont)

----------------------------------------------------------------------------
(* PalletStrategy *)

PalletCanPlaceAt(position, dimensions, placed, cont) ==
  /\ isWithinBounds(position, dimensions, cont)
  /\ \A k \in 1..Len(placed) :
        ~checkIntersectionDefault(position, dimensions, placed[k].position, placed[k].dimensions)

PalletFindBestPosition(item, placed, cont) ==
  IF ~item.hasDimensions THEN NoPosition
  ELSE LET itemDims == item.dimensions
           orientations == << [rotation |-> 0, dimensions |-> itemDims],
                              [rotation |-> 90, dimensions |-> Dims(itemDims.width, itemDims.length, itemDims.height)] >>
           cands == Flatten([o \in 1..2 |->
                      LET maxX == cont.length - orientations[o].dimensions.length
                          maxZ == cont.width - orientations[o].dimensions.width
                      IN  IF maxX < 0 \/ maxZ < 0 THEN <<>>
                          ELSE Flatten([i \in 1..(maxX \div PalletStep + 1) |->
                                 [j \in 1..(maxZ \div PalletStep + 1) |->
                                   Found(Vec((i - 1) * PalletStep, 0, (j - 1) * PalletStep),
                                         orientations[o].rotation, orientations[o].dimensions, "horizontal")]])])
       IN  FirstAccepted(cands, LAMBDA c : PalletCanPlaceAt(c.position, c.dimensions, placed, cont))

----------------------------------------------------------------------------
(* RollStrategy (lattice revision) *)

(* rollDiameter and rollLength as findBestPosition resolves them *)
RollEffectiveDims(item) ==
  LET d0 == IF item.hasRoll THEN item.rollDimensions.diameter
            ELSE IF item.hasDimensions THEN Min(item.dimensions.length, item.dimensions.width)
            ELSE 0
      l0 == IF item.hasRoll THEN item.rollDimensions.length
            ELSE IF item.hasDimensions THEN item.dimensions.height
            ELSE 0
  IN  IF item.hasPallet
      THEN [diameter |-> Max(item.palletDimensions.length, item.palletDimensions.width),
            length |-> l0 + item.palletDimensions.height]
      ELSE [diameter |-> d0, length |-> l0]

RollGetOrientations(diameter, length, isPalletized) ==
  << [dimensions |-> Dims(diameter, diameter, length), rotation |-> 0, orientation |-> "vertical"] >>
  \o (IF isPalletized THEN <<>>
      ELSE << [dimensions |-> Dims(length, diameter, diameter), rotation |-> 0, orientation |-> "horizontal"],
              [dimensions |-> Dims(diameter, length, diameter), rotation |-> 90, orientation |-> "horizontal"] >>)

(* the floor point of one lattice node followed by its stacked points *)
StackPoints(x, z, length, cont) ==
  <<Vec(x, 0, z)>> \o
  (IF length > MinStackLen
   THEN [k \in 1..((cont.height + StackTol) \div length - 1) |-> Vec(x, k * length, z)]
   ELSE <<>>)

(* "const useXPattern = capX > capZ": the two capacities are estimated     *)
(* from the numbers of rows and columns                                     *)
useXPattern(cont, diameter) ==
  LET hexStep == HexStep(diameter)
      capZ == ((cont.width - diameter) \div hexStep + 2) * (cont.length \div diameter + 1)
      capX == ((cont.length - diameter) \div hexStep + 2) * (cont.width \div diameter + 1)
  IN  capX > capZ

RollGenerateCandidatePoints(cont, diameter, length) ==
  LET hexStep == HexStep(diameter)
      radius == diameter \div 2
      zRowsCount == (cont.width - diameter) \div hexStep + 2
      xColsCount == cont.length \div diameter + 1
      capZ == zRowsCount * xColsCount
      xRowsCount == (cont.length - diameter) \div hexStep + 2
      zColsCount == cont.width \div diameter + 1
      capX == xRowsCount * zColsCount
      raw == IF ~useXPattern(cont, diameter)
             THEN Flatten([row \in 1..zRowsCount |->
                    Flatten([col \in 1..xColsCount |->
                      StackPoints((col - 1) * diameter + (IF (row - 1) % 2 = 1 THEN radius ELSE 0),
                                  (row - 1) * hexStep, length, cont)])])
             ELSE Flatten([row \in 1..xRowsCount |->
                    Flatten([col \in 1..zColsCount |->
                      StackPoints((row - 1) * hexStep,
                                  (col - 1) * diameter + (IF (row - 1) % 2 = 1 THEN radius ELSE 0),
                                  length, cont)])])
      inside == SelectSeq(raw, LAMBDA pt :
                  /\ ~(pt.x < -PointTol \/ pt.y < -PointTol \/ pt.z < -PointTol)
                  /\ ~(pt.x > cont.length + PointTol \/ pt.y > cont.height + PointTol
                       \/ pt.z > cont.width + PointTol))
      unique == Dedup(inside)
      points == [k \in 1..Len(unique) |->
                  [position |-> unique[k],
                   score |-> unique[k].y * 10000 + unique[k].z * 100 + unique[k].x]]
  IN  IF hexStep < MinHexStep THEN <<>> ELSE SortByScore(points)

RollGetSupportingItems(pos, dims, placed) ==
  SelectSeq(placed, LAMBDA it :
    /\ Abs(it.position.y + it.dimensions.height - pos.y) < SupportEps
    /\ checkAABBIntersection(
         Vec(pos.x - SupportEps, 0, pos.z - SupportEps),
         Dims(dims.length + SupportEps * 2, dims.width + SupportEps * 2, 100),
         Vec(it.position.x, 0, it.position.z),
         Dims(it.dimensions.length, it.dimensions.width, 100)))

(* Math.abs(dist - (myRadius + supportRadius)) < 0.25 on doubled centres *)
RollContact(a1, b1, dia1, a2, b2, dia2) ==
  LET da == (2 * a1 + dia1) - (2 * a2 + dia2)
      db == (2 * b1 + dia1) - (2 * b2 + dia2)
      d4 == da * da + db * db
      sum == dia1 + dia2
  IN  /\ d4 < (sum + 2 * ContactTol) * (sum + 2 * ContactTol)
      /\ (sum - 2 * ContactTol < 0 \/ d4 > (sum - 2 * ContactTol) * (sum - 2 * ContactTol))

RollHasSufficientSupport(pos, dims, orientation, placed) ==
  LET supportingItems == RollGetSupportingItems(pos, dims, placed)
      isSittingOnBox == \E k \in 1..Len(supportingItems) : supportingItems[k].item.type # "roll"
      itemArea == dims.length * dims.width
      areas == [k \in 1..Len(supportingItems) |->
                 Max(0, Min(pos.x + dims.length, supportingItems[k].position.x + supportingItems[k].dimensions.length)
                        - Max(pos.x, supportingItems[k].position.x))
                 * Max(0, Min(pos.z + dims.width, supportingItems[k].position.z + supportingItems[k].dimensions.width)
                          - Max(pos.z, supportingItems[k].position.z))]
      myDia == IF orientation = "vertical" THEN dims.length ELSE dims.height
      contact(sup) ==
        LET supDia == IF sup.orientation = "vertical" THEN sup.dimensions.length ELSE sup.dimensions.height
        IN  IF orientation = "vertical" /\ sup.orientation = "vertical"
            THEN RollContact(pos.x, pos.z, myDia, sup.position.x, sup.position.z, supDia)
            ELSE IF orientation = "horizontal" /\ sup.orientation = "horizontal"
                 THEN LET myAlign == IF dims.length > dims.width THEN "x" ELSE "z"
                          supAlign == IF sup.dimensions.length > sup.dimensions.width THEN "x" ELSE "z"
                      IN  IF myAlign # supAlign THEN FALSE
                          ELSE IF myAlign = "x"
                               THEN RollContact(pos.y, pos.z, myDia, sup.position.y, sup.position.z, supDia)
                               ELSE RollContact(pos.x, pos.y, myDia, sup.position.x, sup.position.y, supDia)
                 ELSE FALSE
      contactCount == Cardinality({k \in 1..Len(supportingItems) :
                         supportingItems[k].item.type = "roll" /\ contact(supportingItems[k])})
  IN  IF supportingItems = <<>> THEN FALSE
      ELSE IF isSittingOnBox THEN 2 * SeqSum(areas) > itemArea
      ELSE contactCount >= 1

RollCanPlaceAt(pos, orient, placed, cont) ==
  /\ isWithinBounds(pos, orient.dimensions, cont)
  /\ \A k \in 1..Len(placed) :
        ~checkIntersection(pos, orient.dimensions, placed[k].position, placed[k].dimensions,
                           "roll", placed[k].item.type, orient.orientation, placed[k].orientation)
  /\ \/ pos.y < FloorTol
     \/ /\ RollHasSufficientSupport(pos, orient.dimensions, orient.orientation, placed)
        /\ (orient.orientation = "vertical" =>
              LET supportingItems == RollGetSupportingItems(pos, orient.dimensions, placed)
              IN  \A k \in 1..Len(supportingItems) :
                    ~(supportingItems[k].item.type = "roll" /\ supportingItems[k].orientation = "horizontal"))

(* the loop over the candidate points and, for each, over the orientations *)
RollTryCandidatePoints(candidatePoints, orientations, placed, cont) ==
  FirstAccepted(Flatten([c \in 1..Len(candidatePoints) |->
                  [o \in 1..Len(orientations) |->
                    [found |-> TRUE, position |-> candidatePoints[c].position,
                     rotation |-> orientations[o].rotation,
                     dimensions |-> orientations[o].dimensions,
                     orientation |-> orientations[o].orientation]]]),
                LAMBDA c :
                  RollCanPlaceAt(c.position,
                                 [dimensions |-> c.dimensions, rotation |-> c.rotation,
                                  orientation |-> c.orientation],
                                 placed, cont))

RollFindBestPosition(item, placed, cont) ==
  LET eff == RollEffectiveDims(item)
  IN  IF eff.diameter <= MinRollDim \/ eff.length <= MinRollDim THEN NoPosition
      ELSE RollTryCandidatePoints(
             RollGenerateCandidatePoints(cont, eff.diameter, eff.length),
             RollGetOrientations(eff.diameter, eff.length, item.isPalletized),
             placed, cont)

----------------------------------------------------------------------------
(* PackingEngine *)

NoDims == Dims(0, 0, 0)
NoRoll == [diameter |-> 0, length |-> 0]

ensurePalletDimensions(item) ==
  IF item.isPalletized /\ ~item.hasPallet
  THEN IF item.hasDimensions
       THEN [item EXCEPT !.hasPallet = TRUE,
                         !.palletDimensions = Dims(item.dimensions.length + AutoPalletMargin,
                                                   item.dimensions.width + AutoPalletMargin,
                                                   AutoPalletHeight)]
       ELSE IF item.hasRoll
            THEN [item EXCEPT !.hasPallet = TRUE,
                              !.palletDimensions = Dims(item.rollDimensions.diameter + AutoPalletMargin,
                                                        item.rollDimensions.diameter + AutoPalletMargin,
                                                        AutoPalletHeight)]
            ELSE item
  ELSE item

(* expandedItems: quantity copies of each entry, the unit id is the pair    *)
(* (entry id, copy index) for the string `${item.id}-${i}`                  *)
expandItems(its) ==
  Flatten([e \in 1..Len(its) |->
    [i \in 1..its[e].quantity |->
      [ensurePalletDimensions(its[e]) EXCEPT !.id = <<its[e].id, i - 1>>, !.quantity = 1]]])

(* a variant in which the comparator of the sort sees the volumes negated *)
getVolNegated(i) ==
  IF i.hasRoll THEN -(355 * i.rollDimensions.diameter * i.rollDimensions.diameter * i.rollDimensions.length)
  ELSE IF i.hasDimensions THEN -(452 * i.dimensions.length * i.dimensions.width * i.dimensions.height)
  ELSE 0

(* getVol multiplied by 452 = 4 * 113, with pi taken as 355 / 113 *)
getVol(i) ==
  IF i.hasRoll THEN 355 * i.rollDimensions.diameter * i.rollDimensions.diameter * i.rollDimensions.length
  ELSE IF i.hasDimensions THEN 452 * i.dimensions.length * i.dimensions.width * i.dimensions.height
  ELSE 0

RECURSIVE InsertByVolume(_, _)
InsertByVolume(s, e) ==
  IF s = <<>> THEN <<e>>
  ELSE IF getVol(e) - getVol(s[Len(s)]) > 0
       THEN InsertByVolume(SubSeq(s, 1, Len(s) - 1), e) \o <<s[Len(s)]>>
       ELSE s \o <<e>>

RECURSIVE sortItems(_, _)
sortItems(s, acc) ==
  IF s = <<>> THEN acc ELSE sortItems(Tail(s), InsertByVolume(acc, Head(s)))

getItemKey(item) ==
  << item.type, item.hasDimensions, item.dimensions, item.hasPallet, item.palletDimensions,
     item.hasRoll, item.rollDimensions, item.isPalletized >>

RECURSIVE groupIdenticalItems(_, _)
groupIdenticalItems(its, acc) ==
  IF its = <<>> THEN acc
  ELSE LET key == getItemKey(Head(its))
           hit == {g \in 1..Len(acc) : getItemKey(acc[g][1]) = key}
       IN  IF hit = {}
           THEN groupIdenticalItems(Tail(its), Append(acc, <<Head(its)>>))
           ELSE LET g == CHOOSE x \in hit : TRUE
                IN  groupIdenticalItems(Tail(its), [acc EXCEPT ![g] = Append(acc[g], Head(its))])

(* a variant with the condition of the revision that kept rolls and small  *)
(* palletized groups out of bulk placement                                  *)
shouldUsePatternPackingBoxes(cfg, group) ==
  /\ cfg.enablePatternPacking
  /\ Len(group) >= cfg.minItemsForPatterns
  /\ group[1].type \in {"pallet", "box"}

shouldUsePatternPacking(cfg, group) ==
  /\ cfg.enablePatternPacking
  /\ group[1].type \in {"pallet", "box", "roll"}
  /\ (group[1].isPalletized \/ Len(group) >= cfg.minItemsForPatterns)

(* which evaluator tryPatternPackingForGroup calls for a box or pallet group *)
EvaluatorKind(group) ==
  IF group[1].type = "pallet" \/ (group[1].type = "box" /\ group[1].isPalletized)
  THEN "pallet" ELSE "box"

(* number of patterns the evaluator of the group iterates over *)
PatternCount(group, cont) ==
  IF group[1].type = "roll" \/ ~group[1].hasDimensions THEN 0
  ELSE Len(PatternsFor(EvaluatorKind(group), group[1], cont))

tryPatternPackingForGroupDiverges(group, cont, examined) ==
  IF group[1].type = "roll"
  THEN /\ group[1].hasRoll
       /\ calculateCoilLoadingDiverges(cont, group[1].rollDimensions.diameter, Len(group))
  ELSE evaluatePatternsDiverges(EvaluatorKind(group), group, cont, examined)

(* "const remaining = items.slice(placed.length)" *)
CoilResult(group, placed) ==
  [placed |-> placed, remaining |-> SubSeq(group, Len(placed) + 1, Len(group))]

(* the mapping of algoResult.placed onto the units of the group, by index *)
CoilMapping(group, rd, algoPlaced) ==
  CoilResult(group, [k \in 1..Min(Len(algoPlaced), Len(group)) |->
                      PlacedOf(group[k], algoPlaced[k], 0,
                               Dims(rd.diameter, rd.diameter, rd.length), "horizontal")])

(* the branch on the evaluation and the call of placeItemsFromSlots *)
PlaceEvaluation(bestEvaluation, group, cont, existingPlaced) ==
  IF bestEvaluation.isNull THEN [placed |-> <<>>, remaining |-> group]
  ELSE IF bestEvaluation.slots = <<>> THEN [placed |-> <<>>, remaining |-> group]
  ELSE placeItemsFromSlots(group, bestEvaluation.slots, cont, existingPlaced)

tryPatternPackingForGroup(group, cont, existingPlaced, examined) ==
  IF group[1].type = "roll"
  THEN IF ~group[1].hasRoll THEN [placed |-> <<>>, remaining |-> group]
       ELSE CoilMapping(group, group[1].rollDimensions,
                        calculateCoilLoading(cont, group[1].rollDimensions.diameter,
                                             group[1].rollDimensions.length, Len(group)))
  ELSE PlaceEvaluation(evaluatePatterns(EvaluatorKind(group), group, cont, examined),
                       group, cont, existingPlaced)

(* strategy.findBestPosition of getStrategy(item.type) *)
findBestPosition(item, placed, cont) ==
  IF item.type = "roll" THEN RollFindBestPosition(item, placed, cont)
  ELSE IF item.type = "pallet" THEN PalletFindBestPosition(item, placed, cont)
  ELSE BoxFindBestPosition(item, placed, cont)

findBestPositionDiverges(item, placed, cont) ==
  item.type \notin {"roll", "pallet"} /\ BoxFindBestPositionDiverges(item, placed, cont)

----------------------------------------------------------------------------
(* Inputs of run *)

MaxQty == 6

Quantities == {1, MinItemsForPatterns, MaxQty}

(* "weight?: number" left out of a catalog entry *)
NoWeight == NaN

(* a variant in which a missing weight counts as one unit of weight *)
WeightOrOne(weight) == IF weight = NoWeight THEN 1 ELSE weight

(* "p.item.weight || 0" *)
WeightOrZero(weight) == IF weight = NoWeight THEN 0 ELSE weight

Item(type, hasDimensions, dimensions, hasRoll, rollDimensions, isPalletized, weight) ==
  [id |-> 0, type |-> type, quantity |-> 1, weight |-> weight,
   hasDimensions |-> hasDimensions, dimensions |-> dimensions,
   hasRoll |-> hasRoll, rollDimensions |-> rollDimensions,
   hasPallet |-> FALSE, palletDimensions |-> NoDims, isPalletized |-> isPalletized]

BoxItem(l, w, h, isPalletized) == Item("box", TRUE, Dims(l, w, h), FALSE, NoRoll, isPalletized, 10)
PalletItem(l, w, h) == Item("pallet", TRUE, Dims(l, w, h), FALSE, NoRoll, FALSE, 20)
RollItem(d, l, isPalletized) ==
  Item("roll", FALSE, NoDims, TRUE, [diameter |-> d, length |-> l], isPalletized, 5)

Menu ==
  { BoxItem(40, 40, 40, FALSE), [BoxItem(60, 40, 20, FALSE) EXCEPT !.weight = NoWeight],
    BoxItem(50, 30, 30, TRUE),
    BoxItem(120, 80, 40, FALSE), BoxItem(40, 0, 40, FALSE), BoxItem(-20, 20, 20, FALSE),
    PalletItem(60, 40, 50),
    RollItem(30, 50, FALSE), RollItem(40, 40, FALSE), RollItem(20, 30, FALSE),
    RollItem(20, 30, TRUE), RollItem(0, 30, FALSE), RollItem(-20, 30, FALSE) }

Entry(template, id, quantity) == [template EXCEPT !.id = id, !.quantity = quantity]

Catalogs ==
  { <<Entry(t, 1, q)>> : t \in Menu, q \in Quantities }
  \cup { <<Entry(t1, 1, q1), Entry(t2, 2, q2)>> :
            t1 \in Menu, q1 \in Quantities, t2 \in Menu, q2 \in {1, MinItemsForPatterns} }

Containers == { Dims(120, 80, 80) }

(* the stacking scenario: a low container, a box covering its floor, one    *)
(* roll that is stood on the box, and a bulk group of small rolls           *)
StackingCatalog ==
  << Entry(BoxItem(120, 80, 40, FALSE), 1, 1), Entry(RollItem(40, 20, FALSE), 2, 1),
     Entry(RollItem(20, 30, FALSE), 3, MinItemsForPatterns) >>

StackingContainer == Dims(120, 80, 60)

(* the capacity scenario: more identical boxes than the four the container *)
(* has room for                                                             *)
CapacityCatalog == << Entry(BoxItem(60, 80, 40, FALSE), 1, MaxQty) >>

(* the single-box scenario: one box in an empty freight container *)
SingleBoxCatalog == << Entry(BoxItem(120, 80, 100, FALSE), 1, 1) >>

SingleBoxContainer == Dims(600, 235, 240)

(* the lattice scenario: a 235 x 237 cross-section and a dozen rolls of     *)
(* diameter 60                                                              *)
LatticeCatalog == << Entry(RollItem(60, 100, FALSE), 1, 12) >>

LatticeContainer == Dims(600, 235, 237)

Inputs ==
  (Catalogs \X Containers)
  \cup { <<StackingCatalog, StackingContainer>> }
  \cup { <<CapacityCatalog, c>> : c \in Containers }
  \cup { <<SingleBoxCatalog, SingleBoxContainer>> }
  \cup { <<LatticeCatalog, LatticeContainer>> }

(* the configurations a PackingEngine is constructed with: the defaults,   *)
(* and the defaults with bulk placement switched off                        *)
Configs ==
  { [enablePatternPacking |-> e, minItemsForPatterns |-> MinItemsForPatterns] : e \in BOOLEAN }

NoRun == [ran |-> FALSE]

NoCall == [called |-> FALSE]

(* loadingResult: null *)
NoResult == [isNull |-> TRUE]

(* WorkerHandler.worker: null *)
NoWorker == [created |-> FALSE, onmessage |-> 0, onerror |-> 0]

(* the loading store and its WorkerHandler as they are created *)
StoreCreated ==
  /\ cargoItems = <<>>
  /\ loadingResult = NoResult
  /\ isCalculating = FALSE
  /\ worker = NoWorker
  /\ workerInbox = <<>>
  /\ mainInbox = <<>>
  /\ promises = <<>>

----------------------------------------------------------------------------
(* PackingEngine.run *)

Init ==
  /\ \E input \in Inputs : items = input[1] /\ container = input[2]
  /\ config \in Configs
  /\ pc = "start"
  /\ groups = <<>>
  /\ gi = 1
  /\ ui = 1
  /\ placedItems = <<>>
  /\ unplacedItems = <<>>
  /\ attempted = {}
  /\ bulk = {}
  /\ tried = {}
  /\ budgetHit = FALSE
  /\ result = [utilNum |-> 0, utilDen |-> 1, totalWeight |-> 0]
  /\ prev = NoRun
  /\ evaluation = NoCall
  /\ StoreCreated

(* expansion, volume sort and grouping *)
Prepare ==
  /\ pc = "start"
  /\ groups' = groupIdenticalItems(sortItems(expandItems(items), <<>>), <<>>)
  /\ gi' = 1
  /\ ui' = 1
  /\ pc' = "group"
  /\ UNCHANGED <<storeVars, items, container, config, evaluation, placedItems, unplacedItems, attempted, bulk, tried, budgetHit, result, prev>>

(* a group that goes through tryPatternPackingForGroup; examined is the     *)
(* number of patterns the evaluator reaches before performance.now()        *)
(* exceeds maxPatternGenerationTime                                         *)
(* a variant in which the entries placed in bulk go in front of the list *)
AfterPatternPackingInFront(patternResult) ==
  IF Len(patternResult.placed) > 0
  THEN /\ placedItems' = patternResult.placed \o placedItems
       /\ unplacedItems' = unplacedItems \o patternResult.remaining
       /\ bulk' = bulk \cup {patternResult.placed[k].itemId : k \in 1..Len(patternResult.placed)}
       /\ gi' = gi + 1
       /\ UNCHANGED <<pc, ui>>
  ELSE /\ pc' = "units"
       /\ ui' = 1
       /\ UNCHANGED <<gi, placedItems, unplacedItems, bulk>>

AfterPatternPacking(patternResult) ==
  IF Len(patternResult.placed) > 0
  THEN /\ placedItems' = placedItems \o patternResult.placed
       /\ unplacedItems' = unplacedItems \o patternResult.remaining
       /\ bulk' = bulk \cup {patternResult.placed[k].itemId : k \in 1..Len(patternResult.placed)}
       /\ gi' = gi + 1
       /\ UNCHANGED <<pc, ui>>
  ELSE /\ pc' = "units"
       /\ ui' = 1
       /\ UNCHANGED <<gi, placedItems, unplacedItems, bulk>>

PatternPackingWithin(patternCount) ==
  \E examined \in 0..patternCount :
    /\ budgetHit' = (budgetHit \/ examined < patternCount)
    /\ IF tryPatternPackingForGroupDiverges(groups[gi], container, examined)
       THEN /\ pc' = "diverged"
            /\ UNCHANGED <<gi, ui, placedItems, unplacedItems, bulk>>
       ELSE AfterPatternPacking(
              tryPatternPackingForGroup(groups[gi], container, placedItems, examined))

TryPatternPacking ==
  /\ pc = "group"
  /\ gi <= Len(groups)
  /\ shouldUsePatternPacking(config, groups[gi])
  /\ tried' = tried \cup {gi}
  /\ PatternPackingWithin(PatternCount(groups[gi], container))
  /\ UNCHANGED <<storeVars, items, container, config, evaluation, groups, attempted, result, prev>>

(* a group that goes straight to the per-unit loop *)
SkipPatternPacking ==
  /\ pc = "group"
  /\ gi <= Len(groups)
  /\ ~shouldUsePatternPacking(config, groups[gi])
  /\ pc' = "units"
  /\ ui' = 1
  /\ UNCHANGED <<storeVars, items, container, config, evaluation, groups, gi, placedItems, unplacedItems, attempted, bulk, tried, budgetHit, result, prev>>

(* one iteration of "for (const item of group.items)" *)
(* "if (result && result.dimensions) placedItems.push(...) else            *)
(* unplacedItems.push(item)", then the next unit or the next group          *)
AfterFindBestPosition(item, found) ==
  /\ IF found.found
     THEN /\ placedItems' = Append(placedItems,
                 PlacedOf(item, found.position, found.rotation,
                          found.dimensions, found.orientation))
          /\ UNCHANGED unplacedItems
     ELSE /\ unplacedItems' = Append(unplacedItems, item)
          /\ UNCHANGED placedItems
  /\ IF ui = Len(groups[gi])
     THEN gi' = gi + 1 /\ ui' = 1 /\ pc' = "group"
     ELSE ui' = ui + 1 /\ UNCHANGED <<gi, pc>>

PlaceUnit ==
  /\ pc = "units"
  /\ attempted' = attempted \cup {groups[gi][ui].id}
  /\ IF findBestPositionDiverges(groups[gi][ui], placedItems, container)
     THEN /\ pc' = "diverged"
          /\ UNCHANGED <<gi, ui, placedItems, unplacedItems>>
     ELSE AfterFindBestPosition(groups[gi][ui],
                                findBestPosition(groups[gi][ui], placedItems, container))
  /\ UNCHANGED <<storeVars, items, container, config, evaluation, groups, bulk, tried, budgetHit, result, prev>>

(* the metrics and the return *)
Finish ==
  /\ pc = "group"
  /\ gi > Len(groups)
  /\ LET containerVol == container.length * container.width * container.height
         itemsVol == SeqSum([k \in 1..Len(placedItems) |->
                       placedItems[k].dimensions.length * placedItems[k].dimensions.width
                         * placedItems[k].dimensions.height])
     IN  result' = [utilNum |-> IF containerVol > 0 THEN itemsVol * 100 ELSE 0,
                    utilDen |-> IF containerVol > 0 THEN containerVol ELSE 1,
                    totalWeight |-> SeqSum([k \in 1..Len(placedItems) |->
                                     WeightOrZero(placedItems[k].item.weight)])]
  /\ pc' = "done"
  /\ UNCHANGED <<storeVars, items, container, config, evaluation, groups, gi, ui, placedItems, unplacedItems, attempted, bulk, tried, budgetHit, prev>>

(* a variant in which placedItems outlives the call *)
RerunKeepingPlaced ==
  /\ pc = "done"
  /\ ~prev.ran
  /\ prev' = [ran |-> TRUE, placedItems |-> placedItems, unplacedItems |-> unplacedItems,
              budgetHit |-> budgetHit]
  /\ pc' = "start"
  /\ groups' = <<>>
  /\ gi' = 1
  /\ ui' = 1
  /\ unplacedItems' = <<>>
  /\ attempted' = {}
  /\ bulk' = {}
  /\ tried' = {}
  /\ budgetHit' = FALSE
  /\ result' = [utilNum |-> 0, utilDen |-> 1, totalWeight |-> 0]
  /\ UNCHANGED <<storeVars, items, container, config, evaluation, placedItems>>

(* run is called again with the same catalog and container *)
Rerun ==
  /\ pc = "done"
  /\ ~prev.ran
  /\ prev' = [ran |-> TRUE, placedItems |-> placedItems, unplacedItems |-> unplacedItems,
              budgetHit |-> budgetHit]
  /\ pc' = "start"
  /\ groups' = <<>>
  /\ gi' = 1
  /\ ui' = 1
  /\ placedItems' = <<>>
  /\ unplacedItems' = <<>>
  /\ attempted' = {}
  /\ bulk' = {}
  /\ tried' = {}
  /\ budgetHit' = FALSE
  /\ result' = [utilNum |-> 0, utilDen |-> 1, totalWeight |-> 0]
  /\ UNCHANGED <<storeVars, items, container, config, evaluation>>

Next ==
  \/ Prepare
  \/ TryPatternPacking
  \/ SkipPatternPacking
  \/ PlaceUnit
  \/ Finish

Spec == Init /\ [][Next]_vars

----------------------------------------------------------------------------
(* PatternEvaluator called on its own: each evaluator applied to a group of *)
(* identical units, with the clock exceeding the budget after expiredAt     *)
(* passes of the loop (never, when expiredAt is the number of patterns)     *)

EvaluatorReturns(loop, expiredAt, examined) ==
  /\ evaluation' = [called |-> TRUE, loop |-> loop, expiredAt |-> expiredAt,
                    examined |-> examined,
                    outcome |-> BestOfEvaluations(examined, 1, NoEvaluation)]
  /\ pc' = "evaluated"

EvaluatorDiverges ==
  /\ pc' = "diverged"
  /\ UNCHANGED evaluation

GridEvaluatorCall(kind, its) ==
  \E expiredAt \in 0..(IF its[1].hasDimensions THEN Len(PatternsFor(kind, its[1], container)) ELSE 0) :
    IF evaluatePatternsDiverges(kind, its, container, expiredAt)
    THEN EvaluatorDiverges
    ELSE EvaluatorReturns(kind, expiredAt, GridEvaluations(kind, its, container, expiredAt))

EvaluatePalletPatterns ==
  /\ pc = "group"
  /\ \E g \in 1..Len(groups) : GridEvaluatorCall("pallet", groups[g])
  /\ UNCHANGED <<storeVars, items, container, config, groups, gi, ui, placedItems, unplacedItems, attempted, bulk, tried, budgetHit, result, prev>>

EvaluateBoxPatterns ==
  /\ pc = "group"
  /\ \E g \in 1..Len(groups) : GridEvaluatorCall("box", groups[g])
  /\ UNCHANGED <<storeVars, items, container, config, groups, gi, ui, placedItems, unplacedItems, attempted, bulk, tried, budgetHit, result, prev>>

RollEvaluatorCall(its) ==
  IF evaluateRollPatternsDiverges(its, container)
  THEN EvaluatorDiverges
  ELSE \E expiredAt \in 0..Len(RollPatternsFor(its, container)) :
         EvaluatorReturns("roll", expiredAt, RollEvaluations(its, container))

EvaluateRollPatterns ==
  /\ pc = "group"
  /\ \E g \in 1..Len(groups) : RollEvaluatorCall(groups[g])
  /\ UNCHANGED <<storeVars, items, container, config, groups, gi, ui, placedItems, unplacedItems, attempted, bulk, tried, budgetHit, result, prev>>

NextEval ==
  \/ Prepare
  \/ EvaluatePalletPatterns
  \/ EvaluateBoxPatterns
  \/ EvaluateRollPatterns

SpecEval == Init /\ [][NextEval]_vars

----------------------------------------------------------------------------
(* GeometryUtils.checkIntersection called on its own: the two arguments     *)
(* are the entries of placedItems, the value returned goes to evaluation    *)

Shape(type, orientation, dimensions) ==
  [type |-> type, orientation |-> orientation, dimensions |-> dimensions]

(* boxes, a pallet, standing and lying rolls, and a box without footprint   *)
(* and a roll without radius                                                *)
Shapes ==
  { Shape("box", "vertical", Dims(20, 20, 20)), Shape("box", "vertical", Dims(40, 20, 20)),
    Shape("box", "vertical", Dims(0, 20, 20)), Shape("pallet", "vertical", Dims(20, 20, 20)),
    Shape("roll", "vertical", Dims(20, 20, 40)), Shape("roll", "horizontal", Dims(40, 20, 20)),
    Shape("roll", "horizontal", Dims(20, 40, 20)), Shape("roll", "vertical", Dims(0, 0, 40)) }

FirstPosition == Vec(40, 40, 40)

SecondPositions == { Vec(x, y, z) : x \in {10, 20, 30, 40, 50, 60}, y \in {0, 30, 50, 60},
                                    z \in {10, 20, 30, 40, 50, 60} }

Operand(shape, position) ==
  PlacedOf([id |-> 0, type |-> shape.type], position, 0, shape.dimensions, shape.orientation)

InitGeom ==
  /\ \E s1 \in Shapes, s2 \in Shapes, p2 \in SecondPositions :
       placedItems = << Operand(s1, FirstPosition), Operand(s2, p2) >>
  /\ items = <<>>
  /\ container = NoDims
  /\ config \in {c \in Configs : c.enablePatternPacking}
  /\ pc = "operands"
  /\ groups = <<>>
  /\ gi = 1
  /\ ui = 1
  /\ unplacedItems = <<>>
  /\ attempted = {}
  /\ bulk = {}
  /\ tried = {}
  /\ budgetHit = FALSE
  /\ result = [utilNum |-> 0, utilDen |-> 1, totalWeight |-> 0]
  /\ prev = NoRun
  /\ evaluation = NoCall
  /\ StoreCreated

GeometryReturns(revision, value) ==
  /\ evaluation' = [called |-> TRUE, revision |-> revision, outcome |-> value]
  /\ pc' = "checked"
  /\ UNCHANGED <<storeVars, items, container, config, groups, gi, ui, placedItems, unplacedItems, attempted, bulk, tried, budgetHit, result, prev>>

CheckIntersection ==
  /\ pc = "operands"
  /\ GeometryReturns("bounding box first",
       checkIntersection(placedItems[1].position, placedItems[1].dimensions,
                         placedItems[2].position, placedItems[2].dimensions,
                         placedItems[1].item.type, placedItems[2].item.type,
                         placedItems[1].orientation, placedItems[2].orientation))

CheckIntersectionR2 ==
  /\ pc = "operands"
  /\ GeometryReturns("rolls first",
       checkIntersectionR2(placedItems[1].position, placedItems[1].dimensions,
                           placedItems[2].position, placedItems[2].dimensions,
                           placedItems[1].item.type, placedItems[2].item.type,
                           placedItems[1].orientation, placedItems[2].orientation))

NextGeom ==
  \/ CheckIntersection
  \/ CheckIntersectionR2

SpecGeom == InitGeom /\ [][NextGeom]_vars

----------------------------------------------------------------------------
(* useLoadingStore, WorkerHandler and packing.worker: the store's actions   *)
(* are called in any order, the worker and the main thread each handle      *)
(* their queued events one at a time                                        *)

MaxCargo == 1
MaxCalls == 2

(* the 40HC preset the store starts with, in centimetres *)
DefaultContainer == Dims(1198, 235, 269)

CargoItem(id, quantity) == [id |-> id, quantity |-> quantity]

CargoMenu == { CargoItem(id, quantity) : id \in 1..MaxCargo, quantity \in 1..2 }

Updates == { [quantity |-> q] : q \in 1..2 }

(* the ILoadingResult engine.run returns for a payload *)
ResultOf(payload) ==
  [isNull |-> FALSE, items |-> payload.items, container |-> payload.container]

InitStore ==
  /\ StoreCreated
  /\ container = DefaultContainer
  /\ items = <<>>
  /\ config \in {c \in Configs : c.enablePatternPacking}
  /\ pc = "store"
  /\ groups = <<>>
  /\ gi = 1
  /\ ui = 1
  /\ placedItems = <<>>
  /\ unplacedItems = <<>>
  /\ attempted = {}
  /\ bulk = {}
  /\ tried = {}
  /\ budgetHit = FALSE
  /\ result = [utilNum |-> 0, utilDen |-> 1, totalWeight |-> 0]
  /\ prev = NoRun
  /\ evaluation = NoCall

engineVars == <<items, container, config, pc, groups, gi, ui, placedItems, unplacedItems,
                attempted, bulk, tried, budgetHit, result, prev, evaluation>>

addCargoItem(item) ==
  /\ cargoItems' = Append(cargoItems, item)
  /\ loadingResult' = NoResult

AddCargoItem ==
  /\ Len(cargoItems) < MaxCargo
  /\ \E item \in CargoMenu :
       /\ \A k \in 1..Len(cargoItems) : cargoItems[k].id # item.id
       /\ addCargoItem(item)
  /\ UNCHANGED <<isCalculating, worker, workerInbox, mainInbox, promises, engineVars>>

RemoveCargoItem ==
  /\ \E id \in 1..MaxCargo :
       cargoItems' = SelectSeq(cargoItems, LAMBDA item : item.id # id)
  /\ loadingResult' = NoResult
  /\ UNCHANGED <<isCalculating, worker, workerInbox, mainInbox, promises, engineVars>>

UpdateCargoItem ==
  /\ \E id \in 1..MaxCargo, updates \in Updates :
       cargoItems' = [k \in 1..Len(cargoItems) |->
                        IF cargoItems[k].id = id
                        THEN [cargoItems[k] EXCEPT !.quantity = updates.quantity]
                        ELSE cargoItems[k]]
  /\ loadingResult' = NoResult
  /\ UNCHANGED <<isCalculating, worker, workerInbox, mainInbox, promises, engineVars>>

(* WorkerHandler.startPacking up to its return: the worker is created if    *)
(* there is none, both handlers are replaced by those of this call, and the *)
(* message is posted                                                        *)
startPacking(its, cont) ==
  /\ promises' = Append(promises, [state |-> "pending", items |-> its, container |-> cont,
                                   value |-> NoResult])
  /\ worker' = [created |-> TRUE, onmessage |-> Len(promises) + 1,
                onerror |-> Len(promises) + 1]
  /\ workerInbox' = Append(workerInbox, [type |-> "START_PACKING",
                                         payload |-> [items |-> its, container |-> cont]])

(* startCalculation up to its await *)
StartCalculation ==
  /\ Len(cargoItems) # 0
  /\ Len(promises) < MaxCalls
  /\ isCalculating' = TRUE
  /\ loadingResult' = NoResult
  /\ startPacking(cargoItems, container)
  /\ UNCHANGED <<cargoItems, mainInbox, engineVars>>

(* self.onmessage of the worker: run the engine, post the result *)
WorkerOnMessage ==
  /\ workerInbox # <<>>
  /\ Head(workerInbox).type = "START_PACKING"
  /\ workerInbox' = Tail(workerInbox)
  /\ mainInbox' = Append(mainInbox, [type |-> "PACKING_COMPLETE",
                                     payload |-> ResultOf(Head(workerInbox).payload)])
  /\ UNCHANGED <<cargoItems, loadingResult, isCalculating, worker, promises, engineVars>>

(* the worker throws while it handles a message: an error event is raised   *)
WorkerFails ==
  /\ workerInbox # <<>>
  /\ workerInbox' = Tail(workerInbox)
  /\ mainInbox' = Append(mainInbox, [type |-> "error", payload |-> NoResult])
  /\ UNCHANGED <<cargoItems, loadingResult, isCalculating, worker, promises, engineVars>>

(* worker.onmessage on the main thread: resolve of the call that installed  *)
(* the handler; a settled promise stays as it is.  The rest of              *)
(* startCalculation runs when its promise resolves, before any other event  *)
HandlerOnMessage ==
  /\ mainInbox # <<>>
  /\ Head(mainInbox).type = "PACKING_COMPLETE"
  /\ mainInbox' = Tail(mainInbox)
  /\ IF promises[worker.onmessage].state = "pending"
     THEN /\ promises' = [promises EXCEPT ![worker.onmessage] =
                            [@ EXCEPT !.state = "resolved", !.value = Head(mainInbox).payload]]
          /\ loadingResult' = Head(mainInbox).payload
          /\ isCalculating' = FALSE
     ELSE UNCHANGED <<promises, loadingResult, isCalculating>>
  /\ UNCHANGED <<cargoItems, worker, workerInbox, engineVars>>

(* worker.onerror: reject, and the catch branch of startCalculation *)
HandlerOnError ==
  /\ mainInbox # <<>>
  /\ Head(mainInbox).type = "error"
  /\ mainInbox' = Tail(mainInbox)
  /\ IF promises[worker.onerror].state = "pending"
     THEN /\ promises' = [promises EXCEPT ![worker.onerror] = [@ EXCEPT !.state = "rejected"]]
          /\ isCalculating' = FALSE
     ELSE UNCHANGED <<promises, isCalculating>>
  /\ UNCHANGED <<cargoItems, loadingResult, worker, workerInbox, engineVars>>

NextStore ==
  \/ AddCargoItem
  \/ RemoveCargoItem
  \/ UpdateCargoItem
  \/ StartCalculation
  \/ WorkerOnMessage
  \/ WorkerFails
  \/ HandlerOnMessage
  \/ HandlerOnError

SpecStore == InitStore /\ [][NextStore]_vars

(* the worker and the main thread handle every event that stays queued *)
SpecStoreFair ==
  /\ InitStore
  /\ [][NextStore]_vars
  /\ WF_vars(WorkerOnMessage)
  /\ WF_vars(HandlerOnMessage)
  /\ WF_vars(HandlerOnError)

NextRerun == Next \/ Rerun

SpecRerun == Init /\ [][NextRerun]_vars

----------------------------------------------------------------------------
(* Properties of the returned result *)

Returned == pc = "done"

(* the intersection predicate on two entries of placedItems *)
PlacedIntersect(p, q) ==
  checkIntersection(p.position, p.dimensions, q.position, q.dimensions,
                    p.item.type, q.item.type, p.orientation, q.orientation)

(* placedItems without its k-th entry *)
OthersOf(k) == SubSeq(placedItems, 1, k - 1) \o SubSeq(placedItems, k + 1, Len(placedItems))

(* the support rule of the strategy of the entry's shape kind *)
SupportedInResult(k) ==
  LET p == placedItems[k]
  IN  IF p.item.type = "roll"
      THEN RollHasSufficientSupport(p.position, p.dimensions, p.orientation, OthersOf(k))
      ELSE BoxHasSupport(p.position, p.dimensions, OthersOf(k))

(* C1: when run has returned, no two distinct entries of placedItems        *)
(* intersect according to the intersection predicate                        *)
C1_NoOverlap ==
  Returned =>
    \A i \in 1..Len(placedItems) : \A j \in 1..Len(placedItems) :
      i < j => ~PlacedIntersect(placedItems[i], placedItems[j])

(* C2: when run has returned, every entry of placedItems is within the      *)
(* bounds of the container                                                  *)
C2_WithinBounds ==
  Returned =>
    \A k \in 1..Len(placedItems) :
      isWithinBounds(placedItems[k].position, placedItems[k].dimensions, container)

(* C3: when run has returned, every placed item above the floor tolerance   *)
(* has a valid supporting set among the other placed items                  *)
C3_Supported ==
  Returned =>
    \A k \in 1..Len(placedItems) :
      placedItems[k].position.y > FloorTol => SupportedInResult(k)

(* C4: when run has returned, every placed item of a palletized unit has    *)
(* position.y within the floor tolerance of 0                               *)
C4_PalletizedOnFloor ==
  Returned =>
    \A k \in 1..Len(placedItems) :
      placedItems[k].item.isPalletized => placedItems[k].position.y <= FloorTol

(* the ids of the units the catalog expands to *)
UnitIds == UNION {{<<items[e].id, i>> : i \in 0..(items[e].quantity - 1)} : e \in 1..Len(items)}

TimesPlaced(u) == Cardinality({k \in 1..Len(placedItems) : placedItems[k].itemId = u})
TimesUnplaced(u) == Cardinality({k \in 1..Len(unplacedItems) : unplacedItems[k].id = u})

(* C5: when run has returned, placedItems and unplacedItems together hold   *)
(* as many entries as the catalog's quantities sum to, and every expanded   *)
(* unit is in exactly one of the two lists, exactly once                    *)
C5_Conservation ==
  Returned =>
    /\ Len(placedItems) + Len(unplacedItems) = SeqSum([e \in 1..Len(items) |-> items[e].quantity])
    /\ \A u \in UnitIds : TimesPlaced(u) + TimesUnplaced(u) = 1

(* a group of which the bulk path placed some units and left others *)
SplitGroup ==
  \E k \in 1..Len(placedItems) : \E j \in 1..Len(unplacedItems) :
    /\ placedItems[k].itemId \in bulk
    /\ getItemKey(placedItems[k].item) = getItemKey(unplacedItems[j])

C5_Witness == Returned /\ SplitGroup

(* C6: run never enters a loop that does not end                            *)
C6_Terminates == pc # "diverged"

Degenerate(item) ==
  \/ item.hasDimensions /\ (item.dimensions.length <= 0 \/ item.dimensions.width <= 0
                              \/ item.dimensions.height <= 0)
  \/ item.hasRoll /\ (item.rollDimensions.diameter <= 0 \/ item.rollDimensions.length <= 0)

(* C7: run returns for a catalog with a degenerate item, and no unit of an  *)
(* item with a zero or negative dimension is in placedItems                 *)
C7_DegenerateUnplaced ==
  /\ ((\E e \in 1..Len(items) : Degenerate(items[e])) => pc # "diverged")
  /\ (Returned => \A k \in 1..Len(placedItems) : ~Degenerate(placedItems[k].item))

(* C8: when run has returned, every unplaced unit of a group of which the   *)
(* bulk path placed some units was handed to the per-unit strategy          *)
C8_FallThrough ==
  Returned =>
    \A j \in 1..Len(unplacedItems) :
      (\E k \in 1..Len(placedItems) :
          /\ placedItems[k].itemId \in bulk
          /\ getItemKey(placedItems[k].item) = getItemKey(unplacedItems[j]))
      => unplacedItems[j].id \in attempted

(* q's top face meets p's bottom face and their footprints overlap *)
RestsOn(p, q) ==
  /\ Abs(q.position.y + q.dimensions.height - p.position.y) < SupportEps
  /\ checkIntervalOverlap(p.position.x, p.dimensions.length, q.position.x, q.dimensions.length)
  /\ checkIntervalOverlap(p.position.z, p.dimensions.width, q.position.z, q.dimensions.width)

(* C9: when run has returned, no vertical roll above the floor tolerance    *)
(* rests on a horizontal roll                                               *)
C9_NoVerticalOnHorizontal ==
  Returned =>
    \A k \in 1..Len(placedItems) : \A j \in 1..Len(placedItems) :
      LET p == placedItems[k]
          q == placedItems[j]
      IN  (/\ k # j
           /\ p.item.type = "roll" /\ p.orientation = "vertical" /\ p.position.y > FloorTol
           /\ RestsOn(p, q))
          => ~(q.item.type = "roll" /\ q.orientation = "horizontal")

SameAsPrevious ==
  /\ placedItems = prev.placedItems
  /\ unplacedItems = prev.unplacedItems

GridCount(dims, cont) ==
  (cont.length \div dims.length) * (cont.width \div dims.width) * (cont.height \div dims.height)

(* the best grid over the six axis-aligned orientations *)
GridCapacity(dims, cont) ==
  LET os == getAllOrientations(dims)
  IN  CHOOSE n \in {GridCount(os[k], cont) : k \in 1..Len(os)} :
        \A k \in 1..Len(os) : GridCount(os[k], cont) <= n

(* no more boxes than this have room in the container, by volume *)
VolumeCapacity(dims, cont) ==
  (cont.length * cont.width * cont.height) \div (dims.length * dims.width * dims.height)

(* a catalog of N identical plain boxes for a container that holds at most  *)
(* K < N of them: a grid of K fits and the volume leaves room for no more;  *)
(* the engine has its default configuration                                 *)
OverSupplied ==
  /\ config.enablePatternPacking
  /\ Len(items) = 1
  /\ items[1].type = "box" /\ ~items[1].isPalletized /\ ~Degenerate(items[1])
  /\ GridCapacity(items[1].dimensions, container) = VolumeCapacity(items[1].dimensions, container)
  /\ items[1].quantity > VolumeCapacity(items[1].dimensions, container)

PlacedExactlyCapacity ==
  /\ Len(placedItems) = VolumeCapacity(items[1].dimensions, container)
  /\ Len(unplacedItems) = items[1].quantity - VolumeCapacity(items[1].dimensions, container)

SingleFittingBox ==
  /\ Len(items) = 1
  /\ items[1].type = "box" /\ items[1].quantity = 1
  /\ ~items[1].isPalletized /\ ~Degenerate(items[1])
  /\ isWithinBounds(Vec(0, 0, 0), items[1].dimensions, container)

(* C12: a single box of quantity 1 that fits the empty container in its     *)
(* catalog orientation is placed at (0,0,0) with rotation 0 and with its    *)
(* catalog length, width and height as resolved dimensions                  *)
C12_SingleBoxAsCatalogued ==
  (Returned /\ SingleFittingBox) =>
    /\ Len(placedItems) = 1
    /\ placedItems[1].position = Vec(0, 0, 0)
    /\ placedItems[1].rotation = 0
    /\ placedItems[1].dimensions = items[1].dimensions

(* a supply of rolls of diameter 60 larger than the plain grid of a         *)
(* 235 x 237 cross-section holds, for an engine in its default              *)
(* configuration                                                            *)
LatticeSupplied ==
  /\ config.enablePatternPacking
  /\ Len(items) = 1
  /\ items[1].type = "roll" /\ ~items[1].isPalletized
  /\ items[1].rollDimensions.diameter = 60
  /\ container.width = 235 /\ container.height = 237
  /\ items[1].quantity > (container.width \div 60) * (container.height \div 60)

(* the placed rolls that share the cross-section layer of the first one *)
FirstLayer == {k \in 1..Len(placedItems) : placedItems[k].position.z = placedItems[1].position.z}

PlacedOfEntry(e) ==
  Cardinality({k \in 1..Len(placedItems) : placedItems[k].itemId[1] = items[e].id})

(* C14: when run has returned, totalWeight is the sum over the catalog      *)
(* entries of the entry's weight, 0 when it has none, times the number of   *)
(* its units in placedItems; unplaced units add nothing                     *)
C14_TotalWeight ==
  Returned =>
    result.totalWeight =
      SeqSum([e \in 1..Len(items) |->
        PlacedOfEntry(e) * (IF items[e].weight = NoWeight THEN 0 ELSE items[e].weight)])

C14_Witness ==
  /\ Returned
  /\ \E k \in 1..Len(placedItems) : placedItems[k].item.weight = NoWeight
  /\ \E k \in 1..Len(placedItems) : placedItems[k].item.weight # NoWeight
  /\ \E j \in 1..Len(unplacedItems) : unplacedItems[j].weight # NoWeight

(* the groups whose turn in the for-loop of run has come *)
ReachedGroups ==
  {g \in 1..Len(groups) : g < gi \/ (g = gi /\ pc \in {"units", "done"})}

SlotPlacementStep ==
  /\ pc = "group"
  /\ gi <= Len(groups)
  /\ gi' = gi + 1
  /\ groups[gi][1].type # "roll"

(* what placeItemsFromSlots returned is within the container, clear of the  *)
(* items placed before the call and of the placements made earlier in the   *)
(* call, and no two of its placements have the same slot                    *)
SlotPlacementsValid ==
  \A k \in (Len(placedItems) + 1)..Len(placedItems') :
    /\ isWithinBounds(placedItems'[k].position, placedItems'[k].dimensions, container)
    /\ \A j \in 1..(k - 1) :
         /\ ~PlacedIntersect(placedItems'[j], placedItems'[k])
         /\ (j > Len(placedItems) => placedItems'[j].position # placedItems'[k].position)

(* C16: every placement returned by placeItemsFromSlots is within the       *)
(* container bounds, intersects neither an item placed before the call nor  *)
(* a placement accepted earlier in the call, and shares its slot with no    *)
(* other placement                                                          *)
C16_SlotsValidated == [][SlotPlacementStep => SlotPlacementsValid]_vars

(* placeItemsFromSlots has placed units next to items of an earlier group *)
C16_Witness ==
  \E k \in 2..Len(placedItems) :
    /\ placedItems[k].itemId \in bulk
    /\ placedItems[k].item.type # "roll"
    /\ placedItems[k - 1].itemId \in bulk
    /\ getItemKey(placedItems[1].item) # getItemKey(placedItems[k].item)

(* the step of run in which tryPatternPackingForGroup is called for a box   *)
(* or pallet group, returns, and its evaluation examined every pattern      *)
SlotCallStep ==
  /\ pc = "group"
  /\ gi <= Len(groups)
  /\ gi \in tried' /\ gi \notin tried
  /\ groups[gi][1].type # "roll"
  /\ pc' # "diverged"
  /\ ~budgetHit'

(* the slots that call hands to placeItemsFromSlots *)
SlotsOfCall ==
  evaluatePatterns(EvaluatorKind(groups[gi]), groups[gi], container,
                   PatternCount(groups[gi], container)).slots

(* the slot passes validateSlot against the items placed before the call    *)
(* and is on the floor if the item is palletized                            *)
SlotUsable(slot, item) ==
  /\ validateSlot(slot, container, placedItems)
  /\ ~(item.isPalletized /\ slot.position.y > FloorTol)

(* a slot after the first is usable for the item at the same index *)
LaterSlotUsable(slots, group) ==
  \E n \in 2..Min(Len(slots), Len(group)) : SlotUsable(slots[n], group[n])

(* C17: placeItemsFromSlots moves on to the following slots after a         *)
(* rejected one, so when a later slot is valid for a later item the call    *)
(* places at least that item                                                *)
C17_LockStep ==
  [][(SlotCallStep /\ LaterSlotUsable(SlotsOfCall, groups[gi]))
       => Len(placedItems') > Len(placedItems)]_vars

(* the step of run in which BoxStrategy.findBestPosition is called for the  *)
(* unit and returns                                                         *)
BoxUnitStep ==
  /\ pc = "units"
  /\ groups[gi][ui].type = "box"
  /\ groups[gi][ui].hasDimensions
  /\ pc' # "diverged"

(* the pairs of an anchor point and an orientation the search ranges over *)
AnchorPairs(item) ==
  LET corners == generateCornerPoints(placedItems, container)
      orientations == BoxGetOrientations(item.dimensions, item.hasPallet, item.palletDimensions)
  IN  { [position |-> corners[c].position, dimensions |-> orientations[o].dimensions,
         rotation |-> orientations[o].rotation] :
          c \in 1..Len(corners), o \in 1..Len(orientations) }

AcceptedPairs(item) ==
  { pr \in AnchorPairs(item) :
      BoxCanPlaceAt(item, pr.position, pr.dimensions, placedItems, container) }

AnchorScore(position) == position.y * 1000000 + position.x * 1000 + position.z

(* pair a is tried before pair b: lower anchor score, or the same anchor    *)
(* and lower height, or the same height and larger footprint                *)
TriedBefore(a, b) ==
  \/ AnchorScore(a.position) < AnchorScore(b.position)
  \/ /\ a.position = b.position
     /\ \/ a.dimensions.height < b.dimensions.height
        \/ /\ a.dimensions.height = b.dimensions.height
           /\ a.dimensions.length * a.dimensions.width > b.dimensions.length * b.dimensions.width

(* what the step appended to placedItems is an accepted pair before which   *)
(* no accepted pair is tried; nothing is appended only if none is accepted  *)
FirstAcceptedPairChosen(item) ==
  IF Len(placedItems') > Len(placedItems)
  THEN \E pr \in AcceptedPairs(item) :
         /\ pr.position = placedItems'[Len(placedItems')].position
         /\ pr.dimensions = placedItems'[Len(placedItems')].dimensions
         /\ pr.rotation = placedItems'[Len(placedItems')].rotation
         /\ \A other \in AcceptedPairs(item) : ~TriedBefore(other, pr)
  ELSE AcceptedPairs(item) = {}

(* C20: BoxStrategy.findBestPosition returns the first pair of an anchor    *)
(* point and an orientation that canPlaceAt accepts, anchors by ascending   *)
(* score and orientations by ascending height then descending footprint,    *)
(* and null only when no pair is accepted                                   *)
C20_FirstAcceptedPair == [][BoxUnitStep => FirstAcceptedPairChosen(groups[gi][ui])]_vars

(* a direct call of an evaluator has returned *)
EvaluatorReturned == pc = "evaluated"

(* outcome is one of the evaluations and none of them has a greater score *)
HighestScoring(evaluations, outcome) ==
  /\ \E i \in 1..Len(evaluations) : evaluations[i] = outcome
  /\ \A j \in 1..Len(evaluations) : ~ScoreGreater(evaluations[j].score, outcome.score)

(* C18: in each of the three evaluation loops no pattern is examined after  *)
(* the budget is exceeded, and the value returned is the highest-scoring    *)
(* evaluation of the patterns examined, null only when none was examined    *)
C18_BudgetStopsEveryLoop ==
  EvaluatorReturned =>
    /\ Len(evaluation.examined) <= evaluation.expiredAt
    /\ IF evaluation.examined = <<>> THEN evaluation.outcome.isNull
       ELSE HighestScoring(evaluation.examined, evaluation.outcome)

C21_PlacedOnlyGrows ==
  [][/\ Len(placedItems') >= Len(placedItems)
     /\ SubSeq(placedItems', 1, Len(placedItems)) = placedItems
     /\ \A k \in (Len(placedItems) + 1)..Len(placedItems') :
          \A j \in 1..Len(placedItems') :
            placedItems'[j].itemId = placedItems'[k].itemId => j = k]_vars

(* a run has returned in which one group was placed in bulk after units of  *)
(* an earlier group were placed one by one, and some unit was rejected      *)
C21_Witness ==
  /\ Returned
  /\ Len(unplacedItems) > 0
  /\ \E j, k \in 1..Len(placedItems) :
       j < k /\ placedItems[j].itemId \notin bulk /\ placedItems[k].itemId \in bulk

(* the volume of a unit, l * w * h or pi * r^2 * length, times 452 *)
UnitVolume(u) ==
  IF u.hasRoll THEN 355 * u.rollDimensions.diameter * u.rollDimensions.diameter * u.rollDimensions.length
  ELSE IF u.hasDimensions THEN 452 * u.dimensions.length * u.dimensions.width * u.dimensions.height
  ELSE 0

(* the units of the groups the loop of run has left behind, and with them   *)
(* the units of the current group the per-unit loop has left behind         *)
UnitsBehind ==
  UNION {{groups[g][u] : u \in 1..Len(groups[g])} : g \in {h \in 1..Len(groups) : h < gi}}
  \cup (IF pc = "units" THEN {groups[gi][u] : u \in 1..(ui - 1)} ELSE {})

(* the units the loops of run have still to come to *)
UnitsAhead ==
  UNION {{groups[g][u] : u \in 1..Len(groups[g])} : g \in {h \in 1..Len(groups) : h > gi}}
  \cup (IF gi <= Len(groups)
        THEN {groups[gi][u] : u \in {v \in 1..Len(groups[gi]) : pc # "units" \/ v >= ui}}
        ELSE {})

(* C22: no unit is attempted before a unit of strictly larger volume: at    *)
(* every point of run, every unit the loops have left behind is at least    *)
(* as large as every unit they have still to come to                        *)
C22_LargestFirst ==
  \A b \in UnitsBehind : \A a \in UnitsAhead : UnitVolume(b) >= UnitVolume(a)

(* the per-unit loop stands at a unit that is strictly smaller than a unit  *)
(* attempted before it, although it comes first in the catalog              *)
C22_Witness ==
  /\ pc = "units"
  /\ gi > 1
  /\ groups[gi][ui].id[1] = items[1].id
  /\ UnitVolume(groups[1][1]) > UnitVolume(groups[gi][ui])
  /\ Len(placedItems) > 0

(* a direct call of checkIntersection has returned *)
GeometryReturned == pc = "checked"

(* the bounding-box test of the revision that was called, on the two        *)
(* arguments of the call                                                    *)
BoundingBoxTest ==
  IF evaluation.revision = "rolls first"
  THEN checkAABBIntersectionR2(placedItems[1].position, placedItems[1].dimensions,
                               placedItems[2].position, placedItems[2].dimensions)
  ELSE checkAABBIntersection(placedItems[1].position, placedItems[1].dimensions,
                             placedItems[2].position, placedItems[2].dimensions)

(* the arguments are two rolls, one standing and one lying *)
MixedRolls ==
  /\ placedItems[1].item.type = "roll"
  /\ placedItems[2].item.type = "roll"
  /\ placedItems[1].orientation # placedItems[2].orientation

(* C23: for a standing and a lying roll checkIntersection returns what the  *)
(* bounding-box overlap test returns, so false when the boxes are disjoint  *)
C23_MixedRollsBoundingBox ==
  (GeometryReturned /\ MixedRolls) => (evaluation.outcome = BoundingBoxTest)

(* an argument without footprint area, or a roll without radius *)
ZeroSized(p) ==
  \/ p.dimensions.length * p.dimensions.width = 0
  \/ p.item.type = "roll" /\ p.orientation = "vertical" /\ p.dimensions.length = 0
  \/ p.item.type = "roll" /\ p.orientation = "horizontal" /\ p.dimensions.height = 0

(* C24: checkIntersection returns false whenever one of its arguments has   *)
(* a zero footprint area or a zero radius, wherever the two are positioned  *)
C24_ZeroSizedNeverIntersects ==
  (GeometryReturned /\ (ZeroSized(placedItems[1]) \/ ZeroSized(placedItems[2])))
    => ~evaluation.outcome

(* the extent [min, max] of an entry on the three axes *)
Extent(p) ==
  << <<p.position.x, p.position.x + p.dimensions.length>>,
     <<p.position.y, p.position.y + p.dimensions.height>>,
     <<p.position.z, p.position.z + p.dimensions.width>> >>

(* the maximum of one entry equals the minimum of the other on some axis *)
FaceContact(p, q) ==
  \E a \in 1..3 : Extent(p)[a][2] = Extent(q)[a][1] \/ Extent(q)[a][2] = Extent(p)[a][1]

(* the length the two extents share on an axis, in ten-thousandths *)
SharedLength(p, q, a) ==
  Fine(Min(Extent(p)[a][2], Extent(q)[a][2]) - Max(Extent(p)[a][1], Extent(q)[a][1]))

(* checkIntersection of the revision that was called, arguments swapped *)
SwappedOutcome ==
  IF evaluation.revision = "rolls first"
  THEN checkIntersectionR2(placedItems[2].position, placedItems[2].dimensions,
                           placedItems[1].position, placedItems[1].dimensions,
                           placedItems[2].item.type, placedItems[1].item.type,
                           placedItems[2].orientation, placedItems[1].orientation)
  ELSE checkIntersection(placedItems[2].position, placedItems[2].dimensions,
                         placedItems[1].position, placedItems[1].dimensions,
                         placedItems[2].item.type, placedItems[1].item.type,
                         placedItems[2].orientation, placedItems[1].orientation)

TwoBoxes == placedItems[1].item.type = "box" /\ placedItems[2].item.type = "box"

(* C25: for two boxes checkIntersection returns false in exact face         *)
(* contact, true when the extents share more than the tolerance on all      *)
(* three axes, and the same value with the arguments swapped                *)
C25_BoxContactAndOverlap ==
  (GeometryReturned /\ TwoBoxes) =>
    /\ FaceContact(placedItems[1], placedItems[2]) => ~evaluation.outcome
    /\ (\A a \in 1..3 : SharedLength(placedItems[1], placedItems[2], a)
                           > (IF evaluation.revision = "rolls first" THEN EPSILON_R2 ELSE EPSILON))
         => evaluation.outcome
    /\ evaluation.outcome = SwappedOutcome

(* two boxes that touch on one axis and share length on the other two *)
C25_Witness ==
  /\ GeometryReturned /\ TwoBoxes
  /\ FaceContact(placedItems[1], placedItems[2])
  /\ Cardinality({a \in 1..3 : SharedLength(placedItems[1], placedItems[2], a) > EPSILON_R2}) = 2
  /\ ~evaluation.outcome

(* the number of floor nodes of the lattice at which a standing roll of the *)
(* diameter lies inside the container, with the rows rising by hexStep      *)
(* along the side rowSide and the rolls of a row set along colSide          *)
LatticeHolds(diameter, rowSide, colSide) ==
  Cardinality({ n \in (0..(rowSide \div HexStep(diameter) + 1)) \X (0..(colSide \div diameter + 1)) :
                  /\ n[1] * HexStep(diameter) + diameter <= rowSide
                  /\ n[2] * diameter + (IF n[1] % 2 = 1 THEN diameter \div 2 ELSE 0) + diameter
                       <= colSide })

(* the per-unit loop stands at a roll for which RollStrategy builds its     *)
(* lattice of candidate points                                              *)
RollAtLattice ==
  /\ pc = "units"
  /\ groups[gi][ui].type = "roll"
  /\ RollEffectiveDims(groups[gi][ui]).diameter > MinRollDim
  /\ RollEffectiveDims(groups[gi][ui]).length > MinRollDim

(* C26: the lattice used for a roll is the one with its rows along the      *)
(* container length exactly when that one holds strictly more rolls than    *)
(* the one with its rows along the container width                          *)
C26_DenserLatticeUsed ==
  RollAtLattice =>
    (useXPattern(container, RollEffectiveDims(groups[gi][ui]).diameter)
       <=> LatticeHolds(RollEffectiveDims(groups[gi][ui]).diameter, container.length, container.width)
             > LatticeHolds(RollEffectiveDims(groups[gi][ui]).diameter, container.width, container.length))

(* the patterns the grid generator called last returns for a group, with    *)
(* the group's palletized flag, those on which generatePlacementSlots       *)
(* does not return left out                                                 *)
ReturnedPatterns ==
  UNION { { <<pt, groups[g][1].isPalletized>> :
              pt \in { PatternsFor(evaluation.loop, groups[g][1], container)[i] :
                         i \in 1..Len(PatternsFor(evaluation.loop, groups[g][1], container)) } }
          : g \in { h \in 1..Len(groups) : groups[h][1].hasDimensions } }

SlotsDerived(pp) ==
  IF generatePlacementSlotsDiverges(pp[1], container, pp[2]) THEN <<>>
  ELSE generatePlacementSlots(pp[1], container, pp[2])

SlotsDisjoint(slots) ==
  \A j, k \in 1..Len(slots) :
    j < k => ~checkAABBIntersection(slots[j].position, slots[j].dimensions,
                                    slots[k].position, slots[k].dimensions)

GridEvaluatorReturned ==
  pc = "evaluated" /\ evaluation.loop \in {"pallet", "box"}

(* C27: for every pattern generateBoxPatterns or generatePalletPatterns     *)
(* returns, the slots generatePlacementSlots derives from it are pairwise   *)
(* non-intersecting and as many as the pattern's totalItems                 *)
C27_SlotsMatchTotalItems ==
  GridEvaluatorReturned =>
    \A pp \in ReturnedPatterns :
      ~generatePlacementSlotsDiverges(pp[1], container, pp[2]) =>
        /\ SlotsDisjoint(SlotsDerived(pp))
        /\ Len(SlotsDerived(pp)) = pp[1].totalItems

(* the half of C27 that is about the slots alone *)
C27_SlotsPairwiseDisjoint ==
  GridEvaluatorReturned =>
    \A pp \in ReturnedPatterns : SlotsDisjoint(SlotsDerived(pp))

(* C28: the utilizationPercent of every result lies between 0 and 100, and  *)
(* is 0 when the container has no volume (utilNum is the volume of the      *)
(* placed items times 100, utilDen the container volume)                    *)
C28_UtilizationInRange ==
  Returned =>
    /\ 0 <= result.utilNum
    /\ result.utilNum \div 100 <= result.utilDen
    /\ (container.length * container.width * container.height = 0 => result.utilNum = 0)

(* C29: every promise startPacking returned eventually settles, and a       *)
(* resolved one carries the result computed for the items and the container *)
(* of its own call, also when the calls overlap                             *)
C29_PromiseSettlesWithOwnResult ==
  /\ [](\A c \in 1..Len(promises) :
          promises[c].state = "resolved" =>
            promises[c].value = ResultOf([items |-> promises[c].items,
                                          container |-> promises[c].container]))
  /\ \A c \in 1..MaxCalls :
       (Len(promises) >= c) ~> (Len(promises) >= c /\ promises[c].state # "pending")

(* C30: a loadingResult that is not null was computed from the cargoItems   *)
(* now in the store                                                         *)
C30_ResultOfCurrentItems ==
  ~loadingResult.isNull => loadingResult.items = cargoItems

====
